---- MODULE Spec2Model ----
(***************************************************************************)
(* State-machine model of the kodecks rules engine.                        *)
(*                                                                         *)
(*   Environment   kodecks/src/env/mod.rs    process / process_turn        *)
(*   GameState     kodecks/src/env/state.rs  check_game_condition          *)
(*                                                                         *)
(* Option<T> is a sequence of length 0 (None) or 1 (Some(x)).  A Vec is a  *)
(* sequence; the effect stack keeps its top at the end, as Vec::push and   *)
(* Vec::pop do.                                                            *)
(***************************************************************************)
EXTENDS Integers, Sequences, FiniteSets, TLC

----------------------------------------------------------------------------
(* Bounds *)

\* Regulation.initial_life, scaled down: every player starts with this life.
InitialLife == 2

\* Number of cards in each player's deck at construction.
DeckSize == 2

\* Largest life total and deck size drawn as inputs of check_game_condition.
MaxStat == 2

\* Cap on the opcode queue: the debug channel is not used beyond it.
MaxQueue == 2

----------------------------------------------------------------------------
(* Option, players, game condition *)

None == <<>>

Some(x) == <<x>>

\* The players of the modelled match, in PlayerList order.
Players == <<"A", "B">>

PlayerIds == {"A", "B"}

\* PlayerList::next for a two-player list: the other player.
players_next(p) == IF p = "A" THEN "B" ELSE "A"

Progress == [kind |-> "Progress", player |-> "-"]

Win(p) == [kind |-> "Win", player |-> p]

Draw == [kind |-> "Draw", player |-> "-"]

is_ended(c) == c.kind # "Progress"

\* Faulty variant of survived_players: a player is dropped only when both
\* the life is zero and the deck is empty.
survived_players_M(ps, l, d) ==
    SelectSeq(ps, LAMBDA p : ~(l[p] = 0 /\ d[p] = 0))

\* The filter of check_game_condition: the players, in list order, that
\* have neither zero life nor an empty deck.
survived_players(ps, l, d) ==
    SelectSeq(ps, LAMBDA p : ~(l[p] = 0 \/ d[p] = 0))

check_game_condition(ps, l, d) ==
    LET s == survived_players(ps, l, d)
    IN  IF Len(s) = 0 THEN Draw
        ELSE IF Len(s) = 1 THEN Win(s[1])
        ELSE Progress

----------------------------------------------------------------------------
(* Actions, commands, opcodes *)

\* Action: a kind and, for DebugCommand, the commands it carries.
Act(k) == [kind |-> k, commands |-> <<>>]

Concede == Act("Concede")

DebugCommand(cs) == [kind |-> "DebugCommand", commands |-> cs]

\* ActionCommand, as far as the engine expands it: inflict one point of
\* damage on a player, deal damage to a player's creature (card 1 is A's,
\* card 2 is B's), destroy a player's creature, or a command whose expansion
\* fails.
Cmd(c, p) == [cmd |-> c, player |-> p]

\* Opcode: one atomic state mutation.
Op(o, a) == [op |-> o, arg |-> a]

\* Command::into_opcodes: Ok(batches) or Err.
into_opcodes(c) ==
    IF c.cmd = "InflictDamage"
    THEN [ok |-> TRUE, codes |-> << <<Op("ReduceLife", c.player)>> >>]
    ELSE IF c.cmd = "DamageCreature"
    THEN [ok |-> TRUE,
          codes |-> << <<Op("TriggerEffect", IF c.player = "A" THEN 1 ELSE 2)>> >>]
    ELSE IF c.cmd = "DestroyCreature"
    THEN [ok |-> TRUE,
          codes |-> << <<Op("RemoveCard", IF c.player = "A" THEN 1 ELSE 2)>> >>]
    ELSE [ok |-> FALSE, codes |-> <<>>]

\* Faulty variant of expand_commands: the first command that fails to expand
\* ends the loop.
RECURSIVE expand_commands_abort(_)
expand_commands_abort(cs) ==
    IF cs = <<>> THEN <<>>
    ELSE LET r == into_opcodes(Head(cs))
         IN  IF r.ok THEN r.codes \o expand_commands_abort(Tail(cs)) ELSE <<>>

\* The loop over commands of process_turn: the batches of every command
\* that expands, in order; a command that fails is logged and skipped.
RECURSIVE expand_commands(_)
expand_commands(cs) ==
    IF cs = <<>> THEN <<>>
    ELSE LET r == into_opcodes(Head(cs))
         IN  (IF r.ok THEN r.codes ELSE <<>>) \o expand_commands(Tail(cs))

\* Environment::execute on the engine state e: Ok(log) with the mutation
\* applied, or Err with e untouched.
execute(e, o) ==
    IF o.op = "ReduceLife"
    THEN [ok |-> TRUE, log |-> <<"LifeChanged">>,
          env |-> [e EXCEPT !.life[o.arg] = IF @ > 0 THEN @ - 1 ELSE 0]]
    ELSE IF o.op = "DrawCard"
    THEN IF e.deck[o.arg] = 0
         THEN [ok |-> FALSE, log |-> <<>>, env |-> e]
         ELSE [ok |-> TRUE, log |-> <<"CardMoved">>,
               env |-> [e EXCEPT !.deck[o.arg] = @ - 1]]
    ELSE IF o.op = "ChangeTurn"
    THEN [ok |-> TRUE, log |-> <<"TurnChanged">>,
          env |-> [e EXCEPT !.current = players_next(@)]]
    ELSE IF o.op = "TriggerEffect"
    THEN [ok |-> TRUE, log |-> <<"EffectTriggered">>,
          env |-> [e EXCEPT !.stack = Append(@, [source |-> o.arg])]]
    ELSE IF o.op = "RemoveCard"
    THEN IF o.arg \in e.zones
         THEN [ok |-> TRUE, log |-> <<"CardMoved">>,
               env |-> [e EXCEPT !.zones = @ \ {o.arg}]]
         ELSE [ok |-> FALSE, log |-> <<>>, env |-> e]
    ELSE [ok |-> FALSE, log |-> <<>>, env |-> e]

\* The loop over the opcodes of one batch: every opcode is executed in
\* order, the logs of those that succeed are collected, failures are skipped.
RECURSIVE execute_all(_, _, _)
execute_all(e, ops, logs) ==
    IF ops = <<>> THEN [env |-> e, logs |-> logs]
    ELSE LET r == execute(e, Head(ops))
         IN  execute_all(r.env, Tail(ops),
                         IF r.ok THEN logs \o r.log ELSE logs)

\* The nested loop over the batches expanded from a handler's commands.
RECURSIVE execute_list(_, _, _)
execute_list(e, list, logs) ==
    IF list = <<>> THEN [env |-> e, logs |-> logs]
    ELSE LET r == execute_all(e, Head(list), logs)
         IN  execute_list(r.env, Tail(list), r.logs)

\* PlayerAvailableActions: the player prompted and the action kinds offered.
Avail(p, ks) == [player |-> p, actions |-> ks]

\* PlayerAvailableActions::validate: the action comes from the prompted
\* player and is one of the kinds offered; conceding and the debug channel
\* are not listed in a prompt and are open to either player.
validate(available, player, action) ==
    \/ action.kind \in {"Concede", "DebugCommand"}
    \/ /\ player = available.player
       /\ action.kind \in available.actions

----------------------------------------------------------------------------
(* Environment *)

VARIABLES
    life,                    \* state.players[p].stats.life
    deck,                    \* number of cards in state.players[p].deck
    phase,                   \* state.phase
    opcodes,                 \* VecDeque<OpcodeList>: queued opcode batches
    stack,                   \* Stack<StackItem>, top at the end
    continuous,              \* ContinuousEffectList: sources registered
    game_condition,          \* GameCondition
    current,                 \* state.players: the player whose turn it is
    zones,                   \* ids of the cards held in some player's zone
    computed,                \* computed power of each card held in a zone
    debug_command,           \* config.debug contains DEBUG_COMMAND
    last_available_actions,  \* Option<PlayerAvailableActions>
    report,                  \* the Report the last process() call returned
    call                     \* the last process() call: whether it was the
                             \* first one, and the path it took

env_vars ==
    <<life, deck, phase, current, zones, computed, opcodes, stack,
      continuous, game_condition>>

\* The Environment fields process_turn works on, as one record.
env == [life |-> life, deck |-> deck, phase |-> phase, current |-> current,
        zones |-> zones, computed |-> computed, opcodes |-> opcodes,
        stack |-> stack, continuous |-> continuous,
        game_condition |-> game_condition]

Report(av, logs, c) == [available_actions |-> av, logs |-> logs, condition |-> c]

\* Faulty variant of dispatch: with no prompt on record the action is
\* handed to process_turn instead of being dropped.
dispatch_keep(last, player, action) ==
    IF last = None THEN [arm |-> "turn", action |-> action]
    ELSE IF action # None /\ validate(last[1], player, action[1])
    THEN [arm |-> "turn", action |-> action]
    ELSE [arm |-> "reject", action |-> None]

\* Faulty variant of dispatch: a call without an action is let through
\* while a prompt is outstanding.
dispatch_lax(last, player, action) ==
    IF last = None THEN [arm |-> "turn", action |-> None]
    ELSE IF action = None \/ validate(last[1], player, action[1])
    THEN [arm |-> "turn", action |-> action]
    ELSE [arm |-> "reject", action |-> None]

\* The match of process(): the arm taken and the action handed to
\* process_turn.  With no prompt on record the action is dropped.
dispatch(last, player, action) ==
    IF last = None THEN [arm |-> "turn", action |-> None]
    ELSE IF action # None /\ validate(last[1], player, action[1])
    THEN [arm |-> "turn", action |-> action]
    ELSE [arm |-> "reject", action |-> None]

\* The fallback arm of process(): the report of a rejected call.
reject_report(last, e) == Report(last, <<>>, e.game_condition)

\* Faulty variant of preprocess: DebugCommand is consumed whatever the flag.
preprocess_unflagged(e, debug, player, action) ==
    IF action # None /\ action[1].kind = "Concede"
    THEN [env |-> [e EXCEPT !.life[player] = 0,
                            !.game_condition = Win(player)],
          action |-> None]
    ELSE IF action # None /\ action[1].kind = "DebugCommand"
    THEN [env |-> [e EXCEPT !.opcodes = @ \o expand_commands(action[1].commands)],
          action |-> None]
    ELSE [env |-> e, action |-> action]

\* The first match of process_turn: Concede and (under the debug flag)
\* DebugCommand are consumed here, any other action is passed on.
preprocess(e, debug, player, action) ==
    IF action # None /\ action[1].kind = "Concede"
    THEN [env |-> [e EXCEPT !.life[player] = 0,
                            !.game_condition = Win(player)],
          action |-> None]
    ELSE IF action # None /\ action[1].kind = "DebugCommand" /\ debug
    THEN [env |-> [e EXCEPT !.opcodes = @ \o expand_commands(action[1].commands)],
          action |-> None]
    ELSE [env |-> e, action |-> action]

\* The early return of process_turn once the game has ended.
ended_report(e) == Report(None, <<>>, e.game_condition)

\* Faulty variant of stack_pop: a second item is taken off with the first.
stack_pop_two(stk) ==
    IF stk = <<>> THEN [item |-> None, rest |-> <<>>]
    ELSE [item |-> Some(stk[Len(stk)]),
          rest |-> SubSeq(stk, 1, IF Len(stk) > 1 THEN Len(stk) - 2 ELSE 0)]

\* self.stack.pop(): the item taken, if any, and the stack left.
stack_pop(stk) ==
    IF stk = <<>> THEN [item |-> None, rest |-> <<>>]
    ELSE [item |-> Some(stk[Len(stk)]), rest |-> SubSeq(stk, 1, Len(stk) - 1)]

\* Faulty variant of should_repush: an empty set of actions counts as a
\* request for input.
should_repush_some(available) == available # None

\* Whether a resolved item goes back on the stack: its report asks for input.
should_repush(available) ==
    ~(available = None \/ available[1].actions = {})

\* GameState::find_card: Ok when some player holds the card in a zone,
\* Err(CardNotFound) otherwise.
find_card(e, id) == id \in e.zones

\* The controller of a card, and the power of its archetype.
controller(id) == IF id = 1 THEN "A" ELSE "B"

base_power(id) == IF id = 1 THEN 1 ELSE 0

\* The power apply_card gives a card: that of the archetype plus one for
\* every registered effect whose source is held by the card's controller,
\* during that controller's turn.
card_power(e, id) ==
    base_power(id)
        + Cardinality({s \in e.continuous \cap e.zones :
                           /\ controller(s) = controller(id)
                           /\ e.current = controller(s)})

\* self.compute_effects() as far as the engine keeps its outcome: the
\* computed power of every card held is replaced.
recompute(e) == [e EXCEPT !.computed = [id \in e.zones |-> card_power(e, id)]]

\* if !self.game_condition.is_ended() { self.game_condition = check... }
update_condition(e) ==
    [e EXCEPT !.game_condition =
        IF ~is_ended(@) THEN check_game_condition(Players, e.life, e.deck) ELSE @]

\* The Ok arm of the handler call: e is the engine with the item popped,
\* h the EffectReport (and the continuous effects) the handler produced.
resolve_stack_item(e, item, action, h) ==
    LET e1 == [e EXCEPT !.continuous =
                  @ \cup (IF h.registers THEN {item.source} ELSE {})]
        list == expand_commands(h.commands)
        targeted == IF action # None /\ action[1].kind = "SelectCard"
                    THEN <<"CardsTargeted">> ELSE <<>>
        x == execute_list(e1, list, targeted)
        e2 == update_condition(recompute(x.env))
        e3 == IF should_repush(h.available_actions)
              THEN [e2 EXCEPT !.stack = Append(@, item)] ELSE e2
    IN  [env |-> e3,
         report |-> Report(h.available_actions, x.logs, e2.game_condition)]

\* Faulty variant of phase_due: the phase machine runs whatever is queued.
phase_due_always(e) == TRUE

\* The `else if` of the stack pop: with no item popped, the phase machine
\* runs when no opcode batch is queued.
phase_due(e) == e.opcodes = <<>>

\* The phase branch: the batches process_player_phase produced (none when
\* it failed) are queued and the phase it left is stored.
advance_phase(e, pr) ==
    [e EXCEPT !.opcodes = @ \o (IF pr.ok THEN pr.opcodes ELSE <<>>),
              !.phase = pr.phase]

\* Faulty variant of fresh_available: the prompt is computed whenever the
\* queue is empty after the pop, also when a batch was just taken.
fresh_available_drained(rest, next, av) == IF rest = <<>> THEN av ELSE None

\* The prompt of the queue path: computed only when no batch was taken.
fresh_available(rest, next, av) == IF next = None THEN av ELSE None

\* Faulty variant of run_queue: the batch queued last is the one taken.
run_queue_back(e, av) ==
    LET n == Len(e.opcodes)
        next == IF n = 0 THEN None ELSE Some(e.opcodes[n])
        rest == IF n = 0 THEN <<>> ELSE SubSeq(e.opcodes, 1, n - 1)
        e1 == [e EXCEPT !.opcodes = rest]
        x == IF next = None THEN [env |-> e1, logs |-> <<>>]
             ELSE execute_all(e1, next[1], <<>>)
        e2 == update_condition(recompute(x.env))
    IN  [env |-> e2,
         report |-> Report(fresh_available(rest, next, av), x.logs,
                           e2.game_condition),
         executed |-> IF next = None THEN 0 ELSE 1]

\* Faulty variant of run_queue: effects are recomputed before the batch is
\* executed.
run_queue_stale(e, av) ==
    LET next == IF e.opcodes = <<>> THEN None ELSE Some(Head(e.opcodes))
        rest == IF e.opcodes = <<>> THEN <<>> ELSE Tail(e.opcodes)
        e1 == recompute([e EXCEPT !.opcodes = rest])
        x == IF next = None THEN [env |-> e1, logs |-> <<>>]
             ELSE execute_all(e1, next[1], <<>>)
        e2 == update_condition(x.env)
    IN  [env |-> e2,
         report |-> Report(fresh_available(rest, next, av), x.logs,
                           e2.game_condition),
         executed |-> IF next = None THEN 0 ELSE 1]

\* The tail of process_turn: the front batch, if any, is executed, effects
\* are recomputed, the prompt and the condition are computed.
run_queue(e, av) ==
    LET next == IF e.opcodes = <<>> THEN None ELSE Some(Head(e.opcodes))
        rest == IF e.opcodes = <<>> THEN <<>> ELSE Tail(e.opcodes)
        e1 == [e EXCEPT !.opcodes = rest]
        x == IF next = None THEN [env |-> e1, logs |-> <<>>]
             ELSE execute_all(e1, next[1], <<>>)
        available == fresh_available(rest, next, av)
        e2 == update_condition(recompute(x.env))
    IN  [env |-> e2,
         report |-> Report(available, x.logs, e2.game_condition),
         executed |-> IF next = None THEN 0 ELSE 1]

\* Faulty variant of handler_failed: the call returns at once.
handler_failed_returns(e, av) ==
    [env |-> e, report |-> Report(None, <<>>, e.game_condition), executed |-> 0]

\* The Err arm of the handler call: the error is logged and the call goes on
\* below the `if let`, to the tail of process_turn.
handler_failed(e, av) == run_queue(e, av)

Trace(path, before, popped, executed, advanced) ==
    [path |-> path, stack_before |-> before, popped |-> popped,
     executed |-> executed, advanced |-> advanced, handler |-> None]

\* Environment::process_turn.  h is the result of the popped item's handler,
\* pr the result of process_player_phase, av the result of
\* available_actions(); each is read only on the path that calls it.
process_turn(e, debug, player, action, h, pr, av) ==
    LET p == preprocess(e, debug, player, action)
        e1 == p.env
        n == Len(e1.stack)
    IN  IF is_ended(e1.game_condition)
        THEN [env |-> e1, report |-> ended_report(e1),
              trace |-> Trace("ended", n, 0, 0, FALSE)]
        ELSE LET s == stack_pop(e1.stack)
                 e2 == [e1 EXCEPT !.stack = s.rest]
                 popped == n - Len(s.rest)
             IN  IF s.item # None /\ ~find_card(e2, s.item[1].source)
                 THEN \* find_card(item.source).unwrap() on Err: the call
                      \* panics with the item popped and no Report returned.
                      [env |-> e2, report |-> None,
                       trace |-> Trace("panic", n, popped, 0, FALSE)]
                 ELSE IF s.item # None
                 THEN IF h.ok
                      THEN LET r == resolve_stack_item(e2, s.item[1], p.action, h)
                           IN  [env |-> r.env, report |-> r.report,
                                trace |-> [Trace("stack", n, popped, 0, FALSE)
                                              EXCEPT !.handler = Some(h)]]
                      ELSE LET r == handler_failed(e2, av)
                           IN  [env |-> r.env, report |-> r.report,
                                trace |-> Trace("stack_err", n, popped,
                                                r.executed, FALSE)]
                 ELSE LET adv == phase_due(e2)
                          e3 == IF adv THEN advance_phase(e2, pr) ELSE e2
                          r == run_queue(e3, av)
                      IN  [env |-> r.env, report |-> r.report,
                           trace |-> Trace("phase", n, popped, r.executed, adv)]

----------------------------------------------------------------------------
(* Inputs of a process() call *)

\* Command lists a DebugCommand action may carry.
DebugLists ==
    { <<Cmd("DestroyCard", "A"), Cmd("InflictDamage", "A")>> }

Actions ==
    {Concede, Act("SelectCard"), Act("EndTurn")}
        \cup {DebugCommand(cs) : cs \in DebugLists}

OptActions == {None} \cup {Some(a) : a \in Actions}

Phases == <<"Standby", "Draw", "Main", "Block", "Battle", "End">>

next_phase(ph) ==
    LET i == CHOOSE k \in 1..Len(Phases) : Phases[k] = ph
    IN  Phases[(i % Len(Phases)) + 1]

\* The batch lists process_player_phase may produce in a phase.
PhaseBatches(ph, cur) ==
    IF ph = "Draw"
    THEN { << <<Op("DrawCard", cur)>> >> }
    ELSE IF ph = "Main"
    THEN { <<>>,
           << <<Op("TriggerEffect", 1), Op("TriggerEffect", 2)>> >>,
           << <<Op("MoveCard", 1), Op("TriggerEffect", 1)>>,
              <<Op("ReduceLife", "B"), Op("TriggerEffect", 2)>> >> }
    ELSE IF ph = "Battle"
    THEN { <<>>, << <<Op("ReduceLife", players_next(cur))>> >> }
    ELSE IF ph = "End"
    THEN { << <<Op("ChangeTurn", cur)>> >> }
    ELSE { <<>> }

\* Results of process_player_phase: Ok(batches) with the phase kept or
\* advanced, or Err.
PhaseResults(ph, cur) ==
    {[ok |-> TRUE, phase |-> ph2, opcodes |-> bs] :
        ph2 \in (IF ph = "Main" THEN {ph, next_phase(ph)} ELSE {next_phase(ph)}),
        bs \in PhaseBatches(ph, cur)}
    \cup {[ok |-> FALSE, phase |-> ph, opcodes |-> <<>>]}

NoPhaseResult == [ok |-> FALSE, phase |-> "Standby", opcodes |-> <<>>]

\* Results of available_actions().
Prompts == {None} \cup {Some(Avail(p, {"EndTurn"})) : p \in PlayerIds}

\* Results of a stack item's handler: Err, or Ok with an EffectReport
\* (commands, available actions) and whether it registered a continuous
\* effect.
HandlerErr ==
    [ok |-> FALSE, commands |-> <<>>, available_actions |-> None,
     registers |-> FALSE]

EffectReport(cs, av, rg) ==
    [ok |-> TRUE, commands |-> cs, available_actions |-> av, registers |-> rg]

HandlerOk ==
    { EffectReport(<<>>, None, FALSE),
      EffectReport(<<>>, None, TRUE),
      EffectReport(<<>>, Some(Avail("B", {"SelectCard"})), FALSE),
      EffectReport(<<>>, Some(Avail("A", {})), FALSE),
      EffectReport(<<Cmd("InflictDamage", "A")>>, None, FALSE),
      EffectReport(<<Cmd("DestroyCard", "B"), Cmd("InflictDamage", "B")>>,
                   Some(Avail("A", {"SelectCard"})), FALSE),
      EffectReport(<<Cmd("DamageCreature", "B")>>, None, FALSE) }

\* The reports the handler of a card's stack item may return: only card 1
\* carries an effect that registers a continuous effect or deals damage to a
\* creature.
HandlerOkOf(source) ==
    {h \in HandlerOk :
         (h.registers \/ h.commands = <<Cmd("DamageCreature", "B")>>)
             => source = 1}

\* The triples (handler result, phase result, prompt) a call can meet: each
\* callback is drawn only where process_turn calls it.
Inputs(player, action) ==
    LET d == dispatch(last_available_actions, player, action)
        p == preprocess(env, debug_command, player, d.action)
    IN  IF d.arm = "reject" \/ is_ended(p.env.game_condition)
        THEN {<<HandlerErr, NoPhaseResult, None>>}
        ELSE IF stack # <<>>
        THEN {<<h, NoPhaseResult, None>> :
                  h \in HandlerOkOf(stack[Len(stack)].source)}
                 \cup {<<HandlerErr, NoPhaseResult, av>> : av \in Prompts}
        ELSE IF p.env.opcodes # <<>>
        THEN {<<HandlerErr, NoPhaseResult, av>> : av \in Prompts}
        ELSE {<<HandlerErr, pr, av>> : pr \in PhaseResults(phase, current), av \in Prompts}

----------------------------------------------------------------------------
(* check_game_condition on arbitrary player lists *)

VARIABLES
    cg_players,   \* a PlayerList
    cg_life,      \* life of each of its players
    cg_deck,      \* deck size of each of its players
    cg_result     \* Option<GameCondition>: the result, once computed

cg_vars == <<cg_players, cg_life, cg_deck, cg_result>>

\* The expression evaluator's run: the host environment, the ExpParams the
\* caller keeps between evaluations, and the record of the last evaluation.
VARIABLES
    ex_env,
    ex_params,
    ex_call

ex_vars == <<ex_env, ex_params, ex_call>>

\* The id counter of a game, the ids of its live cards, and the copy of a card
\* that Card::duplicate has made and Card::renew_id has not yet renamed.
VARIABLES
    id_counter,
    id_cards,
    id_copy

id_vars == <<id_counter, id_cards, id_copy>>

\* A regulation, a deck list and the verdict of Regulation::verify.
VARIABLES
    rg_regulation,
    rg_deck,
    rg_result

rg_vars == <<rg_regulation, rg_deck, rg_result>>

\* A ShardList and the record of the last call made on it.
VARIABLES
    sh_shards,
    sh_call

sh_vars == <<sh_shards, sh_call>>

\* The players' zones with the continuous effects registered, and the number
\* of recomputations run on them.
VARIABLES
    ce_state,
    ce_runs

ce_vars == <<ce_state, ce_runs>>

VARIABLES
    cd_cards,                \* the cards alive, in the order they came
    cd_snaps,                \* the snapshots taken of them, if any
    cd_call                  \* the last operation on a card

cd_vars == <<cd_cards, cd_snaps, cd_call>>

\* The variables of the operations modelled after the regulation check.
more_vars == <<sh_vars, ce_vars, cd_vars>>

\* Everything the engine's process() works on.
engine_vars ==
    <<env_vars, debug_command, last_available_actions, report, call>>

vars == <<engine_vars, cg_vars, ex_vars, id_vars, rg_vars, more_vars>>

PlayerLists ==
    { <<"A">>, <<"A", "B">>, <<"B", "A">>, <<"A", "B", "C">>, <<"C", "A", "B">> }

Range(f) == {f[i] : i \in DOMAIN f}

----------------------------------------------------------------------------
(* Environment::new and Environment::process *)

EnvInit ==
    /\ life = [p \in PlayerIds |-> InitialLife]
    /\ deck = [p \in PlayerIds |-> DeckSize]
    /\ phase = "Standby"
    /\ current = Players[1]
    /\ zones = {1, 2}
    /\ computed = [id \in {1, 2} |-> base_power(id)]
    /\ opcodes = <<>>
    /\ stack = <<>>
    /\ continuous = {}
    /\ game_condition = Progress
    /\ last_available_actions = None
    /\ report = Report(None, <<>>, Progress)
    /\ call = [first |-> FALSE, trace |-> Trace("new", 0, 0, 0, FALSE)]

CondIdle ==
    /\ cg_players = <<>>
    /\ cg_life = <<>>
    /\ cg_deck = <<>>
    /\ cg_result = None

\* The evaluator, the id counter and the regulation check are not running.
ExpIdle ==
    /\ ex_env = <<>>
    /\ ex_params = <<>>
    /\ ex_call = None

IdIdle ==
    /\ id_counter = 0
    /\ id_cards = <<>>
    /\ id_copy = None

RegIdle ==
    /\ rg_regulation = <<>>
    /\ rg_deck = <<>>
    /\ rg_result = None

ShardIdle ==
    /\ sh_shards = <<>>
    /\ sh_call = <<>>

\* No specification but its own runs a pure operation: the others hold its
\* variables idle.
EffectsIdle ==
    /\ ce_state = <<>>
    /\ ce_runs = 0

CardIdle ==
    /\ cd_cards = <<>>
    /\ cd_snaps = <<>>
    /\ cd_call = <<>>

OthersIdle == ShardIdle /\ EffectsIdle /\ CardIdle

Init ==
    /\ EnvInit
    /\ debug_command \in BOOLEAN
    /\ CondIdle
    /\ ExpIdle
    /\ IdIdle
    /\ RegIdle
    /\ OthersIdle

\* Faulty variant of stored_prompt: a report without a prompt leaves the
\* prompt on record in place.
stored_prompt_sticky(last, rep) ==
    IF rep.available_actions = None THEN last ELSE rep.available_actions

\* self.last_available_actions = report.available_actions.clone()
stored_prompt(last, rep) == rep.available_actions

\* The value process() works out: the new engine state, the Report and the
\* path taken.
process(e, debug, last, player, action, h, pr, av) ==
    LET d == dispatch(last, player, action)
    IN  IF d.arm = "turn"
        THEN process_turn(e, debug, player, d.action, h, pr, av)
        ELSE [env |-> e, report |-> reject_report(last, e),
              trace |-> Trace("rejected", Len(e.stack), 0, 0, FALSE)]

\* Environment::process(player, action).
Process(player, action, h, pr, av) ==
    \E r \in {process(env, debug_command, last_available_actions,
                      player, action, h, pr, av)} :
        /\ life' = r.env.life
        /\ deck' = r.env.deck
        /\ phase' = r.env.phase
        /\ current' = r.env.current
        /\ zones' = r.env.zones
        /\ computed' = r.env.computed
        /\ opcodes' = r.env.opcodes
        /\ stack' = r.env.stack
        /\ continuous' = r.env.continuous
        /\ game_condition' = r.env.game_condition
        /\ IF r.trace.path = "panic"
           THEN UNCHANGED <<last_available_actions, report>>
           ELSE /\ last_available_actions' =
                       stored_prompt(last_available_actions, r.report)
                /\ report' = r.report
        /\ call' = [first |-> call.trace.path = "new", trace |-> r.trace]
        /\ UNCHANGED <<debug_command, cg_vars, ex_vars, id_vars, rg_vars, more_vars>>

Next ==
    \E player \in PlayerIds, action \in OptActions :
        /\ (action # None /\ action[1].kind = "DebugCommand")
               => Len(opcodes) < MaxQueue
        /\ \E i \in Inputs(player, action) :
               Process(player, action, i[1], i[2], i[3])

Spec == Init /\ [][Next]_vars

\* The report of a handler that destroys the opponent's creature: the effect
\* of card 2.
HandlerDestroys == EffectReport(<<Cmd("DestroyCreature", "A")>>, None, FALSE)

\* Environment::process where the effect of card 2 may destroy card 1.  A
\* call that panicked has unwound the caller: no further call is made.
ProcessDestroying(player, action) ==
    /\ call.trace.path # "panic"
    /\ \/ \E i \in Inputs(player, action) :
              Process(player, action, i[1], i[2], i[3])
       \/ /\ stack # <<>>
          /\ stack[Len(stack)].source = 2
          /\ Process(player, action, HandlerDestroys, NoPhaseResult, None)

NextZones ==
    \E player \in PlayerIds, action \in OptActions :
        /\ (action # None /\ action[1].kind = "DebugCommand")
               => Len(opcodes) < MaxQueue
        /\ ProcessDestroying(player, action)

SpecZones == Init /\ [][NextZones]_vars

----------------------------------------------------------------------------
(* Specification applying check_game_condition to drawn player lists *)

InitCond ==
    /\ EnvInit
    /\ debug_command = FALSE
    /\ cg_players \in PlayerLists
    /\ cg_life \in [Range(cg_players) -> 0..MaxStat]
    /\ cg_deck \in [Range(cg_players) -> 0..MaxStat]
    /\ cg_result = None
    /\ ExpIdle
    /\ IdIdle
    /\ RegIdle
    /\ OthersIdle

CheckCondition ==
    /\ cg_result = None
    /\ cg_result' = Some(check_game_condition(cg_players, cg_life, cg_deck))
    /\ UNCHANGED <<engine_vars, cg_players, cg_life, cg_deck,
                   ex_vars, id_vars, rg_vars, more_vars>>

NextCond == CheckCondition

SpecCond == InitCond /\ [][NextCond]_vars

----------------------------------------------------------------------------
(* Claims *)

\* Some submission (p, a) that process() rejects produces this step.
RejectedStep(p, a) ==
    /\ last_available_actions # None
    /\ a = None \/ ~validate(last_available_actions[1], p, a[1])
    /\ \E i \in Inputs(p, a) : Process(p, a, i[1], i[2], i[3])

\* C1: with a prompt outstanding, a call whose action fails validation (or
\* that carries no action) changes nothing in the engine and returns the
\* previous prompt, no logs and the current condition.
C1_RejectedCallChangesNothing ==
    [][\A p \in PlayerIds, a \in OptActions :
          RejectedStep(p, a) =>
              /\ UNCHANGED env_vars
              /\ report' = Report(last_available_actions, <<>>, game_condition)
              /\ last_available_actions' = last_available_actions]_vars

C1_Witness ==
    /\ call.trace.path = "rejected"
    /\ last_available_actions # None
    /\ stack # <<>>
    /\ opcodes # <<>>
    /\ game_condition = Progress

ConcedeAccepted(p) ==
    /\ last_available_actions # None
    /\ validate(last_available_actions[1], p, Concede)
    /\ \E i \in Inputs(p, Some(Concede)) :
           Process(p, Some(Concede), i[1], i[2], i[3])

\* C3: a Concede of player p accepted while the game is in Progress makes
\* that call return Win(q) for p's opponent q.
C3_ConcedeOpponentWins ==
    [][\A p \in PlayerIds :
          (game_condition = Progress /\ ConcedeAccepted(p))
              => report'.condition = Win(players_next(p))]_vars

\* C4: on a freshly constructed Environment the first call,
\* process(A, Some(Concede)), returns Win(B).
C4_FreshConcedeWinsB ==
    [][(/\ call.trace.path = "new"
        /\ \E i \in Inputs("A", Some(Concede)) :
               Process("A", Some(Concede), i[1], i[2], i[3]))
          => report'.condition = Win("B")]_vars

\* C5: once a call has returned Win(x) or Draw, every later call returns
\* that same condition with no available actions.
C5_EndedIsAbsorbing ==
    [][(call.trace.path # "new" /\ is_ended(report.condition))
          => /\ report'.condition = report.condition
             /\ report'.available_actions = None]_vars

\* The players with non-zero life and a non-empty deck.
Survivors == {p \in PlayerIds : life[p] # 0 /\ deck[p] # 0}

\* C7: after every call the reported condition agrees with the survivors
\* of the current state: Win(p) only when p alone survives, Draw only when
\* nobody does, Progress only when at least two do.
C7_ConditionMatchesSurvivors ==
    call.trace.path # "new" =>
        /\ report.condition.kind = "Win"
               => Survivors = {report.condition.player}
        /\ report.condition.kind = "Draw" => Survivors = {}
        /\ report.condition.kind = "Progress" => Cardinality(Survivors) >= 2

\* C9: a process() call takes at most one item off the effect stack (and
\* so runs at most one handler), whatever the handler does.
C9_AtMostOneStackItem == call.trace.popped <= 1

C9_Witness ==
    /\ call.trace.path = "stack_err"
    /\ call.trace.stack_before >= 2
    /\ call.trace.popped = 1
    /\ Len(stack) >= 1

\* C10: a call on the phase/opcode path returns available actions only if
\* it executed no batch and the opcode queue is empty when it returns.
C10_PromptOnlyWhenDrained ==
    (call.trace.path \in {"phase", "stack_err"}
        /\ report.available_actions # None)
        => (opcodes = <<>> /\ call.trace.executed = 0)

C10_Witness ==
    /\ call.trace.path = "phase"
    /\ report.available_actions # None
    /\ opcodes = <<>>
    /\ game_condition = Progress

\* C6: check_game_condition returns Draw when no player survives, Win(p)
\* when p is the only survivor and Progress when two or more survive.
C6_ClassifiesBySurvivors ==
    cg_result # None =>
        LET S == {p \in Range(cg_players) : cg_life[p] # 0 /\ cg_deck[p] # 0}
        IN  /\ S = {} => cg_result[1] = Draw
            /\ \A p \in S : S = {p} => cg_result[1] = Win(p)
            /\ Cardinality(S) >= 2 => cg_result[1] = Progress

C6_Witness ==
    /\ cg_result = Some(Win("B"))
    /\ Len(cg_players) = 3
    /\ cg_life["A"] = 0 /\ cg_deck["A"] # 0
    /\ cg_life["C"] # 0 /\ cg_deck["C"] = 0

----------------------------------------------------------------------------
(* Expression values: Value and Constant of the script language *)

\* A value is a record of its variant k and its payload v.
Null == [k |-> "Null", v |-> <<>>]
Bool(b) == [k |-> "Bool", v |-> b]
U64(n) == [k |-> "U64", v |-> n]
I64(n) == [k |-> "I64", v |-> n]
\* A string is the sequence of its characters.
String(s) == [k |-> "String", v |-> s]
Array(a) == [k |-> "Array", v |-> a]
\* An object is a function from keys (strings) to values.
Object(o) == [k |-> "Object", v |-> o]
Function(name, args, body) ==
    [k |-> "Function", v |-> [name |-> name, args |-> args, body |-> body]]

\* The number n in the variant the parser gives a literal: u64 first, then i64.
Num(n) == IF n >= 0 THEN U64(n) ELSE I64(n)
is_num(v) == v.k \in {"U64", "I64"}

\* Errors of an evaluation.
E(kind) == [kind |-> kind, msg |-> <<>>]
Custom(msg) == [kind |-> "Custom", msg |-> msg]

\* The result of an operator of Value: a value or an error.
VOk(v) == [ok |-> TRUE, val |-> v, err |-> E("none")]
VErr(e) == [ok |-> FALSE, val |-> Null, err |-> e]

\* !!v: every value but null and false counts as true.
truthy(v) == ~(v.k = "Null" \/ (v.k = "Bool" /\ v.v = FALSE))

RECURSIVE repeat(_, _)
repeat(s, n) == IF n = 0 THEN <<>> ELSE s \o repeat(s, n - 1)

RECURSIVE digits(_)
digits(n) ==
    LET d == <<"0", "1", "2", "3", "4", "5", "6", "7", "8", "9">>
    IN  IF n < 10 THEN <<d[n + 1]>> ELSE digits(n \div 10) \o <<d[(n % 10) + 1]>>

\* Display of a value, as string interpolation and object keys use it.
to_string(v) ==
    CASE v.k = "String" -> v.v
      [] v.k = "U64" -> digits(v.v)
      [] v.k = "I64" -> IF v.v < 0 THEN <<"-">> \o digits(0 - v.v) ELSE digits(v.v)
      [] v.k = "Bool" -> IF v.v THEN <<"t", "r", "u", "e">>
                                ELSE <<"f", "a", "l", "s", "e">>
      [] v.k = "Null" -> <<"n", "u", "l", "l">>
      [] OTHER -> <<"?">>

\* The order of characters and of strings.
Alphabet == <<"a", "b", "i", "k", "n", "p", "t", "u", "x">>
CharOrd(c) == CHOOSE i \in 1..Len(Alphabet) : Alphabet[i] = c

RECURSIVE str_lt(_, _)
str_lt(s, t) ==
    IF t = <<>> THEN FALSE
    ELSE IF s = <<>> THEN TRUE
    ELSE IF s[1] = t[1] THEN str_lt(Tail(s), Tail(t))
    ELSE CharOrd(s[1]) < CharOrd(t[1])

rank(v) ==
    CASE v.k = "Null" -> 0
      [] v.k = "Bool" -> 1
      [] is_num(v) -> 2
      [] v.k = "String" -> 3
      [] v.k = "Array" -> 4
      [] v.k = "Object" -> 5
      [] OTHER -> 6

value_lt(l, r) ==
    IF rank(l) # rank(r) THEN rank(l) < rank(r)
    ELSE CASE is_num(l) -> l.v < r.v
           [] l.k = "Bool" -> (~l.v) /\ r.v
           [] l.k = "String" -> str_lt(l.v, r.v)
           [] OTHER -> FALSE

\* The arithmetic and comparison operators of Value.
apply_op(op, l, r) ==
    CASE op = "Add" ->
             CASE is_num(l) /\ is_num(r) -> VOk(Num(l.v + r.v))
               [] l.k = "String" /\ r.k = "String" -> VOk(String(l.v \o r.v))
               [] l.k = "Array" /\ r.k = "Array" -> VOk(Array(l.v \o r.v))
               [] OTHER -> VErr(E("InvalidType"))
      [] op = "Sub" ->
             IF is_num(l) /\ is_num(r) THEN VOk(Num(l.v - r.v))
             ELSE VErr(E("InvalidType"))
      [] op = "Mul" ->
             CASE is_num(l) /\ is_num(r) -> VOk(Num(l.v * r.v))
               [] l.k = "String" /\ r.k = "U64" -> VOk(String(repeat(l.v, r.v)))
               [] OTHER -> VErr(E("InvalidType"))
      [] op = "Rem" ->
             IF is_num(l) /\ is_num(r) /\ r.v > 0 /\ l.v >= 0
             THEN VOk(Num(l.v % r.v))
             ELSE VErr(E("InvalidType"))
      [] op = "Eq" -> VOk(Bool(l = r))
      [] op = "Ne" -> VOk(Bool(l # r))
      [] op = "Ge" -> VOk(Bool(~value_lt(l, r)))
      [] op = "Gt" -> VOk(Bool(value_lt(r, l)))
      [] op = "Le" -> VOk(Bool(~value_lt(r, l)))
      [] op = "Lt" -> VOk(Bool(value_lt(l, r)))

\* -v.
neg(v) == IF is_num(v) THEN VOk(Num(0 - v.v)) ELSE VErr(E("InvalidType"))

\* Value::index_str: the field of an object.
index_str(v, s) ==
    IF v.k # "Object" THEN VErr(E("InvalidType"))
    ELSE IF s \in DOMAIN v.v THEN VOk(v.v[s])
    ELSE VErr(E("KeyNotFound"))

\* Value::index_num: the element of an array, counted from its end when n < 0.
index_num(v, n) ==
    IF v.k # "Array" THEN VErr(E("InvalidType"))
    ELSE LET i == IF n < 0 THEN Len(v.v) + n ELSE n
         IN  IF 0 <= i /\ i < Len(v.v) THEN VOk(v.v[i + 1])
             ELSE VErr(E("KeyNotFound"))

\* Value::index_range: the slice [start, end) of a string or an array, with
\* absent ends meaning the whole and both ends clamped to the length.
index_range(v, start, end) ==
    IF v.k \notin {"String", "Array"} THEN VErr(E("InvalidType"))
    ELSE LET n == Len(v.v)
             clamp(i) == IF i < 0 THEN (IF n + i < 0 THEN 0 ELSE n + i)
                         ELSE IF i > n THEN n ELSE i
             a == IF start = None THEN 0 ELSE clamp(start[1])
             b == IF end = None THEN n ELSE clamp(end[1])
         IN  VOk([k |-> v.k, v |-> SubSeq(v.v, a + 1, b)])

----------------------------------------------------------------------------
(* ExpParams: the scope stack and the execution budget *)

\* The budget of one evaluation. The program's is 256; the evaluator is run
\* here with a smaller one, which every claim about it is stated relative to.
EXECUTION_LIMIT == 24

\* The key a scope files a name under: "name" for arity 0, "name/arity"
\* otherwise. A name is the sequence of its characters.
def_id(name, arity) == <<name, arity>>

\* An empty map, and a map with one more entry.
EmptyMap == <<>>
map_insert(m, id, x) ==
    [i \in DOMAIN m \cup {id} |-> IF i = id THEN x ELSE m[i]]

\* ExpParams::default(). The fields evals and log are observations, not fields
\* of the program: the number of evaluations begun since the last reset and
\* the calls of consume_exec made so far.
ExpParamsDefault ==
    [vars |-> <<EmptyMap>>, execution_limit |-> EXECUTION_LIMIT,
     evals |-> 0, log |-> <<>>]

\* One call of consume_exec as the log keeps it: the units asked for, the
\* budget before and after, and the depth of the scope stack at the call.
LogEntry(depth, n, before, after) ==
    [n |-> n, before |-> before, after |-> after, depth |-> depth]

consume_exec_lax(P, n) ==
    IF P.execution_limit + 1 >= n
    THEN [ok |-> TRUE,
          params |-> [P EXCEPT !.execution_limit = @ - n,
                               !.log = Append(@, LogEntry(Len(P.vars), n, P.execution_limit,
                                                          P.execution_limit - n))]]
    ELSE [ok |-> FALSE,
          params |-> [P EXCEPT !.log = Append(@, LogEntry(Len(P.vars), n, P.execution_limit,
                                                          P.execution_limit))]]

\* ExpParams::consume_exec(n).
consume_exec(P, n) ==
    IF P.execution_limit >= n
    THEN [ok |-> TRUE,
          params |-> [P EXCEPT !.execution_limit = @ - n,
                               !.log = Append(@, LogEntry(Len(P.vars), n, P.execution_limit,
                                                          P.execution_limit - n))]]
    ELSE [ok |-> FALSE,
          params |-> [P EXCEPT !.log = Append(@, LogEntry(Len(P.vars), n, P.execution_limit,
                                                          P.execution_limit))]]

\* ExpParams::reset_exec().
reset_exec(P) == [P EXCEPT !.execution_limit = EXECUTION_LIMIT, !.evals = 0]

push_vars(P) == [P EXCEPT !.vars = Append(@, EmptyMap)]

pop_vars(P) ==
    IF Len(P.vars) > 1
    THEN [P EXCEPT !.vars = SubSeq(@, 1, Len(@) - 1)]
    ELSE P

RECURSIVE scope_find_value(_, _, _)
\* The scopes 1..n searched from the innermost outward for a name bound to a
\* value.
scope_find_value(scopes, n, name) ==
    IF n = 0 THEN None
    ELSE IF def_id(name, 0) \in DOMAIN scopes[n]
            /\ scopes[n][def_id(name, 0)].t = "Value"
         THEN Some(scopes[n][def_id(name, 0)].v)
         ELSE scope_find_value(scopes, n - 1, name)

get_var_outermost(P, name) ==
    LET hits == {n \in 1..Len(P.vars) :
                     /\ def_id(name, 0) \in DOMAIN P.vars[n]
                     /\ P.vars[n][def_id(name, 0)].t = "Value"}
    IN  IF hits = {} THEN None
        ELSE Some(P.vars[CHOOSE n \in hits : \A m \in hits : n <= m]
                        [def_id(name, 0)].v)

\* ExpParams::get_var(name).
get_var(P, name) == scope_find_value(P.vars, Len(P.vars), name)

\* Faulty variant of set_var: the name is bound in the outermost scope.
set_var_outer(P, name, val) ==
    IF Len(P.vars) = 0 THEN P
    ELSE [P EXCEPT !.vars[1] =
              map_insert(@, def_id(name, 0), [t |-> "Value", v |-> val])]

\* ExpParams::set_var(name, val).
set_var(P, name, val) ==
    IF Len(P.vars) = 0 THEN P
    ELSE [P EXCEPT !.vars[Len(P.vars)] =
              map_insert(@, def_id(name, 0), [t |-> "Value", v |-> val])]

RECURSIVE scope_find_def(_, _, _)
scope_find_def(scopes, n, id) ==
    IF n = 0 THEN None
    ELSE IF id \in DOMAIN scopes[n] THEN Some(scopes[n][id])
         ELSE scope_find_def(scopes, n - 1, id)

\* ExpParams::get_def(name, arity).
get_def(P, name, arity) == scope_find_def(P.vars, Len(P.vars), def_id(name, arity))

\* ExpParams::set_def(name, arity, val).
set_def(P, name, arity, exp) ==
    IF Len(P.vars) = 0 THEN P
    ELSE [P EXCEPT !.vars[Len(P.vars)] = map_insert(@, def_id(name, arity), exp)]

----------------------------------------------------------------------------
(* Exp: the expression tree, a record of its variant t and its parts *)

Ident == [t |-> "Ident"]
Path(lhs, parts) == [t |-> "Path", lhs |-> lhs, parts |-> parts]
Variable(name) == [t |-> "Variable", name |-> name]
Value(v) == [t |-> "Value", v |-> v]
Arr(exp) == [t |-> "Arr", exp |-> exp]
Obj(pairs) == [t |-> "Obj", pairs |-> pairs]
Assign(name, exp) == [t |-> "Assign", name |-> name, exp |-> exp]
Pipe(lhs, rhs) == [t |-> "Pipe", lhs |-> lhs, rhs |-> rhs]
Comma(lhs, rhs) == [t |-> "Comma", lhs |-> lhs, rhs |-> rhs]
TryCatch(lhs, rhs) == [t |-> "TryCatch", lhs |-> lhs, rhs |-> rhs]
IfThenElse(ifthen, els) == [t |-> "IfThenElse", ifthen |-> ifthen, els |-> els]
BinOp(lhs, op, rhs) == [t |-> "BinOp", lhs |-> lhs, op |-> op, rhs |-> rhs]
Neg(exp) == [t |-> "Neg", exp |-> exp]
Str(args) == [t |-> "Str", args |-> args]
Select(arg) == [t |-> "Select", arg |-> arg]
Error(exp) == [t |-> "Error", exp |-> exp]
CustomFunction(name, args) == [t |-> "CustomFunction", name |-> name, args |-> args]
Not == [t |-> "Not"]
Empty == [t |-> "Empty"]

\* Path::Index and Path::Range.
PathIndex(index, opt) == [t |-> "Index", index |-> index, opt |-> opt]
PathRange(start, end, opt) == [t |-> "Range", start |-> start, end |-> end, opt |-> opt]

\* LiteralPath: an index worked out to a key, a number or a pair of bounds.
LiteralStr(s, opt) == [t |-> "Str", s |-> s, opt |-> opt]
LiteralNum(n, opt) == [t |-> "Num", n |-> n, opt |-> opt]
LiteralRange(start, end, opt) == [t |-> "Range", start |-> start, end |-> end, opt |-> opt]

\* Result<Vec<Value>, Error> of an evaluation, with the ExpParams it leaves.
Ok(vals, P) == [ok |-> TRUE, vals |-> vals, err |-> E("none"), params |-> P]
Err(e, P) == [ok |-> FALSE, vals |-> <<>>, err |-> e, params |-> P]

\* The host environment (ExpEnv): the variables it defines, and its built-in
\* filters as the test environment of the evaluator implements them.
test_builtin_func ==
    <<"t", "e", "s", "t", "_", "b", "u", "i", "l", "t", "i", "n", "_",
      "f", "u", "n", "c">>

env_get_var(host, name) ==
    IF name \in DOMAIN host THEN Some(host[name]) ELSE None

env_invoke(host, name, args, P) ==
    IF name = test_builtin_func
    THEN Ok(<<IF Len(args) >= 2 THEN args[2] ELSE Null>>, P)
    ELSE Err(E("UndefinedFilter"), P)

\* The keys of an object in the order of its BTreeMap.
RECURSIVE sorted_keys(_)
sorted_keys(S) ==
    IF S = {} THEN <<>>
    ELSE LET m == CHOOSE s \in S : \A u \in S : u = s \/ str_lt(s, u)
         IN  <<m>> \o sorted_keys(S \ {m})

\* The values an index evaluated to, as literal keys and numbers.
RECURSIVE index_literals(_, _)
index_literals(vs, opt) ==
    IF vs = <<>> THEN [ok |-> TRUE, lits |-> <<>>]
    ELSE LET rest == index_literals(Tail(vs), opt)
             v == Head(vs)
         IN  IF v.k = "String"
             THEN IF rest.ok
                  THEN [ok |-> TRUE, lits |-> <<LiteralStr(v.v, opt)>> \o rest.lits]
                  ELSE rest
             ELSE IF is_num(v)
             THEN IF rest.ok
                  THEN [ok |-> TRUE, lits |-> <<LiteralNum(v.v, opt)>> \o rest.lits]
                  ELSE rest
             ELSE [ok |-> FALSE, lits |-> <<>>]

\* The values a range bound evaluated to, as optional numbers.
RECURSIVE bound_literals(_)
bound_literals(vs) ==
    IF vs = <<>> THEN [ok |-> TRUE, lits |-> <<>>]
    ELSE LET rest == bound_literals(Tail(vs))
         IN  IF is_num(Head(vs)) /\ rest.ok
             THEN [ok |-> TRUE, lits |-> <<Some(Head(vs).v)>> \o rest.lits]
             ELSE [ok |-> FALSE, lits |-> <<>>]

\* Vec::resize_with(len, Default::default) on a vector of optional numbers.
resize_with(v, len) == [i \in 1..len |-> IF i <= Len(v) THEN v[i] ELSE None]

range_literals(start, end, opt) ==
    LET a == Len(start)
        b == Len(end)
        m == IF a > b THEN a ELSE b
        len == IF m > 1 THEN m ELSE 1
        s == resize_with(start, len)
        e == resize_with(end, len)
    IN  [i \in 1..len |-> LiteralRange(s[i], e[i], opt)]

path_keep_errors(result, opt) == FALSE

\* Whether a failed lookup is passed over: the `?` of the path part.
path_swallows(result, opt) == opt

\* One (index, value) pair of a path part: the values it contributes, or the
\* error it stops the evaluation with.
path_pair(i, v) ==
    IF i.t = "Range" /\ i.start = None /\ i.end = None
    THEN CASE v.k = "Array" -> [ok |-> TRUE, vals |-> v.v, err |-> E("none")]
           [] v.k = "Object" ->
                  [ok |-> TRUE,
                   vals |-> [n \in 1..Cardinality(DOMAIN v.v) |->
                                 v.v[sorted_keys(DOMAIN v.v)[n]]],
                   err |-> E("none")]
           [] OTHER -> [ok |-> FALSE, vals |-> <<>>, err |-> E("InvalidKey")]
    ELSE LET result == CASE i.t = "Str" -> index_str(v, i.s)
                         [] i.t = "Num" -> index_num(v, i.n)
                         [] i.t = "Range" -> index_range(v, i.start, i.end)
         IN  IF result.ok
             THEN [ok |-> TRUE, vals |-> <<result.val>>, err |-> E("none")]
             ELSE IF path_swallows(result, i.opt)
                  THEN [ok |-> TRUE, vals |-> <<>>, err |-> E("none")]
                  ELSE [ok |-> FALSE, vals |-> <<>>, err |-> result.err]

\* The loops `for i in &indices { for v in &val { .. } }` of a path part.
RECURSIVE path_collect(_, _, _, _)
path_collect(indices, val, n, acc) ==
    IF n > Len(indices) * Len(val) THEN [ok |-> TRUE, vals |-> acc, err |-> E("none")]
    ELSE LET i == indices[((n - 1) \div Len(val)) + 1]
             v == val[((n - 1) % Len(val)) + 1]
             r == path_pair(i, v)
         IN  IF r.ok THEN path_collect(indices, val, n + 1, acc \o r.vals)
             ELSE r

----------------------------------------------------------------------------
(* The evaluator: Exp::eval on one input value and on a slice of values *)

charge_repeat_peek(P, op, l, r) ==
    IF l.k = "String" /\ r.k = "U64" /\ op = "Mul"
    THEN [ok |-> P.execution_limit >= r.v, params |-> P]
    ELSE [ok |-> TRUE, params |-> P]

\* The charge of a string repetition: a string times an unsigned count n
\* consumes n units before the operator is applied.
charge_repeat(P, op, l, r) ==
    IF l.k = "String" /\ r.k = "U64" /\ op = "Mul"
    THEN consume_exec(P, r.v)
    ELSE [ok |-> TRUE, params |-> P]

\* The loops `for l in lhs { for r in &rhs { .. } }` of a binary operator.
RECURSIVE binop_loop(_, _, _, _, _, _)
binop_loop(lv, rv, op, n, acc, P) ==
    IF n > Len(lv) * Len(rv) THEN Ok(acc, P)
    ELSE LET l == lv[((n - 1) \div Len(rv)) + 1]
             r == rv[((n - 1) % Len(rv)) + 1]
             c == charge_repeat(P, op, l, r)
             val == apply_op(op, l, r)
         IN  IF ~c.ok THEN Err(E("ExecutionLimitExceeded"), c.params)
             ELSE IF ~val.ok THEN Err(val.err, c.params)
             ELSE binop_loop(lv, rv, op, n + 1, Append(acc, val.val), c.params)

RECURSIVE neg_all(_, _, _)
neg_all(vals, acc, P) ==
    IF vals = <<>> THEN Ok(acc, P)
    ELSE LET r == neg(Head(vals))
         IN  IF r.ok THEN neg_all(Tail(vals), Append(acc, r.val), P)
             ELSE Err(r.err, P)

RECURSIVE concat_strings(_)
concat_strings(vals) ==
    IF vals = <<>> THEN <<>>
    ELSE to_string(Head(vals)) \o concat_strings(Tail(vals))

starts_with_never(name) == FALSE

\* Whether a parameter name starts with '$'.
starts_with_dollar(name) == Len(name) > 0 /\ name[1] = "$"

RECURSIVE set_vars(_, _, _, _)
\* `for (name, val) in self.args.iter().zip(args) { set_var(name, val) }`.
set_vars(P, names, vals, n) ==
    IF n > Len(names) \/ n > Len(vals) THEN P
    ELSE set_vars(set_var(P, names[n], vals[n]), names, vals, n + 1)

comma_reversed(lhs_val, rhs_val) == rhs_val \o lhs_val

\* The outputs of a comma: the left outputs, then the right ones.
comma_chain(lhs_val, rhs_val) == lhs_val \o rhs_val

try_catch_custom_only(l) == (~l.ok) /\ l.err.kind = "Custom"

\* Whether try/catch turns to its right branch: on any error of the left one.
try_catch_caught(l) == ~l.ok

RECURSIVE eval(_, _, _, _)
RECURSIVE eval_slice(_, _, _, _, _, _)
RECURSIVE path_parts(_, _, _, _, _, _)
RECURSIVE obj_pairs(_, _, _, _, _, _)
RECURSIVE obj_keys(_, _, _, _, _, _, _, _, _)
RECURSIVE str_args(_, _, _, _, _, _)
RECURSIVE if_chain(_, _, _, _, _, _)
RECURSIVE fn_args(_, _, _, _, _, _, _)
RECURSIVE builtin_args(_, _, _, _, _, _)
RECURSIVE invoke(_, _, _, _, _)

\* Exp::eval on a slice: the outputs for each input, in the order of the inputs.
eval_slice(e, xs, n, acc, host, P) ==
    IF n > Len(xs) THEN Ok(acc, P)
    ELSE LET val == eval(e, xs[n], host, P)
         IN  IF val.ok THEN eval_slice(e, xs, n + 1, acc \o val.vals, host, val.params)
             ELSE val

\* One part of a path after another: the indices of the part, then the
\* lookups of every index in every value.
path_parts(parts, n, val, x, host, P) ==
    IF n > Len(parts) THEN Ok(val, P)
    ELSE LET part == parts[n]
             step(indices, Q) ==
                 LET c == path_collect(indices, val, 1, <<>>)
                 IN  IF c.ok THEN path_parts(parts, n + 1, c.vals, x, host, Q)
                     ELSE Err(c.err, Q)
         IN  IF part.t = "Index"
             THEN LET ir == eval(part.index, x, host, P)
                      lits == index_literals(ir.vals, part.opt)
                  IN  IF ~ir.ok THEN ir
                      ELSE IF ~lits.ok THEN Err(E("InvalidKey"), ir.params)
                      ELSE step(lits.lits, ir.params)
             ELSE LET sr == IF part.start = None THEN Ok(<<>>, P)
                            ELSE eval(part.start[1], x, host, P)
                      sl == bound_literals(sr.vals)
                      er == IF part.end = None THEN Ok(<<>>, sr.params)
                            ELSE eval(part.end[1], x, host, sr.params)
                      el == bound_literals(er.vals)
                  IN  IF ~sr.ok THEN sr
                      ELSE IF ~sl.ok THEN Err(E("InvalidKey"), sr.params)
                      ELSE IF ~er.ok THEN er
                      ELSE IF ~el.ok THEN Err(E("InvalidKey"), er.params)
                      ELSE step(range_literals(sl.lits, el.lits, part.opt), er.params)

\* The pairs of an object constructor, one after another.
obj_pairs(pairs, n, obj, x, host, P) ==
    IF n > Len(pairs) THEN Ok(<<Object(obj)>>, P)
    ELSE LET kr == eval(pairs[n].lhs, x, host, P)
         IN  IF kr.ok
             THEN obj_keys(kr.vals, 1, pairs[n].rhs, pairs, n, obj, x, host, kr.params)
             ELSE kr

\* The keys one pair evaluated to: each gets the last value of the right side.
obj_keys(keys, j, rhs, pairs, n, obj, x, host, P) ==
    IF j > Len(keys) THEN obj_pairs(pairs, n + 1, obj, x, host, P)
    ELSE LET key == to_string(keys[j])
             field == index_str(x, key)
             val == IF rhs # None THEN eval(rhs[1], x, host, P)
                    ELSE IF field.ok THEN Ok(<<field.val>>, P)
                    ELSE Err(field.err, P)
         IN  IF ~val.ok THEN val
             ELSE obj_keys(keys, j + 1, rhs, pairs, n,
                           IF val.vals # <<>>
                           THEN map_insert(obj, key, val.vals[Len(val.vals)])
                           ELSE obj,
                           x, host, val.params)

\* The parts of a string interpolation, one after another.
str_args(args, n, s, x, host, P) ==
    IF n > Len(args) THEN Ok(<<String(s)>>, P)
    ELSE LET r == eval(args[n], x, host, P)
         IN  IF r.ok
             THEN str_args(args, n + 1, s \o concat_strings(r.vals), x, host, r.params)
             ELSE r

\* The conditions of if/elif in turn, then the else branch or the input.
if_chain(ifthen, n, els, x, host, P) ==
    IF n > Len(ifthen)
    THEN IF els # None THEN eval(els[1], x, host, P) ELSE Ok(<<x>>, P)
    ELSE LET val == eval(ifthen[n][1], x, host, P)
         IN  IF ~val.ok THEN val
             ELSE IF \E i \in 1..Len(val.vals) : truthy(val.vals[i])
             THEN eval(ifthen[n][2], x, host, val.params)
             ELSE if_chain(ifthen, n + 1, els, x, host, val.params)

\* The arguments of a call of a user-defined function: the last value of an
\* argument for a '$' parameter, a closure of the argument for any other.
fn_args(names, args, n, new_args, x, host, P) ==
    IF n > Len(names) \/ n > Len(args) THEN Ok(new_args, P)
    ELSE IF starts_with_dollar(names[n])
    THEN LET val == eval(args[n], x, host, P)
         IN  IF ~val.ok THEN val
             ELSE fn_args(names, args, n + 1,
                          IF val.vals # <<>>
                          THEN Append(new_args, val.vals[Len(val.vals)])
                          ELSE new_args,
                          x, host, val.params)
    ELSE fn_args(names, args, n + 1,
                 Append(new_args, Function(<<>>, <<>>, args[n])), x, host, P)

\* The arguments of a built-in: all values of every argument.
builtin_args(args, n, new_args, x, host, P) ==
    IF n > Len(args) THEN Ok(new_args, P)
    ELSE LET val == eval(args[n], x, host, P)
         IN  IF val.ok
             THEN builtin_args(args, n + 1, new_args \o val.vals, x, host, val.params)
             ELSE val

\* Faulty variant of invoke: a body that fails returns at once, its scope
\* left on the stack.
invoke_leaky(func, args, x, host, P) ==
    LET val == eval(func.body, x, host,
                    set_vars(push_vars(P), func.args, args, 1))
    IN  IF val.ok THEN [val EXCEPT !.params = pop_vars(@)] ELSE val

\* Function::invoke: the body evaluated in a new scope holding the arguments.
invoke(func, args, x, host, P) ==
    LET val == eval(func.body, x, host,
                    set_vars(push_vars(P), func.args, args, 1))
    IN  [val EXCEPT !.params = pop_vars(@)]

\* Exp::eval on one input value.
eval(e, x, host, P0) ==
    LET c == consume_exec(P0, 1)
        P == [c.params EXCEPT !.evals = @ + 1]
    IN  IF ~c.ok THEN Err(E("ExecutionLimitExceeded"), c.params)
        ELSE CASE e.t = "Ident" -> Ok(<<x>>, P)
          [] e.t = "Path" ->
                 LET val == eval(e.lhs, x, host, P)
                 IN  IF val.ok THEN path_parts(e.parts, 1, val.vals, x, host, val.params)
                     ELSE val
          [] e.t = "Variable" ->
                 LET h == env_get_var(host, e.name)
                     v == IF h # None THEN h ELSE get_var(P, e.name)
                 IN  IF v # None THEN Ok(<<v[1]>>, P)
                     ELSE Err(E("UndefinedVariable"), P)
          [] e.t = "Value" -> Ok(<<e.v>>, P)
          [] e.t = "Arr" ->
                 IF e.exp = None THEN Ok(<<Array(<<>>)>>, P)
                 ELSE LET val == eval(e.exp[1], x, host, P)
                      IN  IF val.ok THEN Ok(<<Array(val.vals)>>, val.params) ELSE val
          [] e.t = "Obj" -> obj_pairs(e.pairs, 1, EmptyMap, x, host, P)
          [] e.t = "Assign" ->
                 LET val == eval(e.exp, x, host, P)
                 IN  IF val.ok /\ val.vals # <<>>
                     THEN Ok(val.vals, set_var(val.params, e.name, val.vals[Len(val.vals)]))
                     ELSE val
          [] e.t = "BinOp" ->
                 LET lhs == eval(e.lhs, x, host, P)
                     rhs == eval(e.rhs, x, host, lhs.params)
                 IN  IF ~lhs.ok THEN lhs
                     ELSE IF ~rhs.ok THEN rhs
                     ELSE binop_loop(lhs.vals, rhs.vals, e.op, 1, <<>>, rhs.params)
          [] e.t = "Neg" ->
                 LET val == eval(e.exp, x, host, P)
                 IN  IF val.ok THEN neg_all(val.vals, <<>>, val.params) ELSE val
          [] e.t = "Pipe" ->
                 LET val == eval(e.lhs, x, host, P)
                 IN  IF val.ok THEN eval_slice(e.rhs, val.vals, 1, <<>>, host, val.params)
                     ELSE val
          [] e.t = "Comma" ->
                 LET lhs_val == eval(e.lhs, x, host, P)
                     rhs_val == eval(e.rhs, x, host, lhs_val.params)
                 IN  IF ~lhs_val.ok THEN lhs_val
                     ELSE IF ~rhs_val.ok THEN rhs_val
                     ELSE Ok(comma_chain(lhs_val.vals, rhs_val.vals), rhs_val.params)
          [] e.t = "Str" -> str_args(e.args, 1, <<>>, x, host, P)
          [] e.t = "Select" ->
                 LET val == eval(e.arg, x, host, P)
                 IN  IF val.ok
                     THEN Ok([i \in 1..Len(SelectSeq(val.vals, truthy)) |-> x], val.params)
                     ELSE val
          [] e.t = "TryCatch" ->
                 LET val == eval(e.lhs, x, host, P)
                 IN  IF try_catch_caught(val) THEN eval(e.rhs, x, host, val.params)
                     ELSE val
          [] e.t = "IfThenElse" -> if_chain(e.ifthen, 1, e.els, x, host, P)
          [] e.t = "Error" ->
                 LET val == eval(e.exp, x, host, P)
                 IN  IF ~val.ok THEN val
                     ELSE IF val.vals # <<>>
                     THEN Err(Custom(to_string(val.vals[1])), val.params)
                     ELSE Ok(<<>>, val.params)
          [] e.t = "CustomFunction" ->
                 LET d == get_def(P, e.name, Len(e.args))
                 IN  IF d # None /\ d[1].t = "Value" /\ d[1].v.k = "Function"
                     THEN LET func == d[1].v.v
                              new_args == fn_args(func.args, e.args, 1, <<>>, x, host, P)
                          IN  IF new_args.ok
                              THEN invoke(func, new_args.vals, x, host, new_args.params)
                              ELSE new_args
                     ELSE LET new_args == builtin_args(e.args, 1, <<>>, x, host, P)
                          IN  IF new_args.ok
                              THEN env_invoke(host, e.name, new_args.vals, new_args.params)
                              ELSE new_args
          [] e.t = "Empty" -> Ok(<<>>, P)
          [] e.t = "Not" -> Ok(<<Bool(~truthy(x))>>, P)

----------------------------------------------------------------------------
(* Specification running the evaluator on drawn expressions and inputs *)

\* Names and strings used by the expressions below.
Names ==
    [x |-> <<"$", "x">>,
     v |-> <<"$", "v">>,
     none |-> <<"$", "n", "o", "n", "e">>,
     f |-> <<"f">>,
     df |-> <<"$", "f">>,
     a |-> <<"$", "a">>,
     b |-> <<"b">>,
     foo |-> <<"f", "o", "o">>,
     bar |-> <<"b", "a", "r">>,
     baz |-> <<"b", "a", "z">>,
     rec |-> <<"r", "e", "c">>,
     ping |-> <<"p", "i", "n", "g">>,
     pong |-> <<"p", "o", "n", "g">>,
     inner |-> <<"i", "n", "n", "e", "r">>,
     db |-> <<"$", "b">>,
     fst |-> <<"f", "s", "t">>,
     snd |-> <<"s", "n", "d">>]

Call0(name) == CustomFunction(name, <<>>)
Lit(n) == Value(U64(n))
Key(s) == Value(String(s))
Times(n) == BinOp(Ident, "Mul", Lit(n))

\* The functions of the module the evaluator is run with:
\*   def bar(f): f|f;  def baz($f): $f|$f;  def foo($a; b): [$a|$a, b|b];
\*   def rec: rec;  def ping: pong;  def pong: ping;  def inner($v): $v;
\*   def fst($a; $b): $a;  def snd($a; $b): $b;
ModuleFuncs ==
    << Function(Names.bar, <<Names.f>>, Pipe(Call0(Names.f), Call0(Names.f))),
       Function(Names.baz, <<Names.df>>, Pipe(Variable(Names.df), Variable(Names.df))),
       Function(Names.foo, <<Names.a, Names.b>>,
                Arr(Some(Pipe(Variable(Names.a),
                              Pipe(Comma(Variable(Names.a), Call0(Names.b)),
                                   Call0(Names.b)))))),
       Function(Names.rec, <<>>, Call0(Names.rec)),
       Function(Names.ping, <<>>, Call0(Names.pong)),
       Function(Names.pong, <<>>, Call0(Names.ping)),
       Function(Names.inner, <<Names.v>>, Variable(Names.v)),
       Function(Names.fst, <<Names.a, Names.db>>, Variable(Names.a)),
       Function(Names.snd, <<Names.a, Names.db>>, Variable(Names.db)) >>

RECURSIVE set_defs(_, _, _)
\* `for (name, func) in module.funcs { params.set_def(name, arity, func) }`.
set_defs(P, funcs, n) ==
    IF n > Len(funcs) THEN P
    ELSE set_defs(set_def(P, funcs[n].v.name, Len(funcs[n].v.args), Value(funcs[n])),
                  funcs, n + 1)

ModuleParams == set_defs(ExpParamsDefault, ModuleFuncs, 1)

\* The host environment of the evaluator's tests: it defines $x as 42.
TestEnv == [n \in {Names.x} |-> U64(42)]

Input == String(<<"i", "n", "p", "u", "t">>)
ObjA == Object([s \in {<<"a">>} |-> U64(1)])
ObjB == Object([s \in {<<"b">>} |-> U64(2)])

\* The input slices.
Slices ==
    << <<U64(5)>>, <<Input>>, <<Input, U64(123)>>, <<ObjA>>, <<ObjA, ObjB>>,
       <<Array(<<U64(1)>>)>> >>

Comma3 == Comma(Comma(Ident, Ident), Ident)
Comma4 == Comma(Comma3, Ident)

\* The expressions, by number.
Exps ==
    << Ident,                                                   \* 1  .
       Pipe(Comma3, Comma(Ident, Ident)),                       \* 2  .,.,.|.,.
       Pipe(Comma(Lit(1), Lit(2)), Comma(Ident, Times(10))),    \* 3  1,2|.,.*10
       Comma(Comma(Lit(89), Lit(55)), BinOp(Ident, "Add", Ident)), \* 4  89,55,.+.
       Pipe(Pipe(Comma4, Comma4), Comma4),                      \* 5  exceeds
       Times(999999),                                           \* 6  .*999999
       Times(3),                                                \* 7  .*3
       Call0(Names.rec),                                         \* 8  rec
       Call0(Names.ping),                                        \* 9  ping
       Path(Ident, <<PathIndex(Key(<<"b">>), TRUE)>>),          \* 10 .["b"]?
       Path(Ident, <<PathIndex(Key(<<"b">>), FALSE)>>),         \* 11 .["b"]
       Path(Ident, <<PathIndex(Comma(Key(<<"b">>), Key(<<"a">>)), TRUE)>>),
                                                                \* 12 .["b","a"]?
       Path(Ident, <<PathRange(Some(Lit(2)), Some(Lit(4)), TRUE)>>),
                                                                \* 13 .[2:4]?
       TryCatch(BinOp(Ident, "Sub", Lit(5)), Lit(0)),           \* 14 try (.-5) catch 0
       TryCatch(Comma(Lit(1), Error(Key(<<"x">>))), Lit(0)),    \* 15 try (1,error("x")) catch 0
       TryCatch(Variable(Names.none), Ident),                    \* 16 try $none catch .
       TryCatch(Path(Ident, <<PathIndex(Arr(None), FALSE)>>), Lit(0)),
                                                                \* 17 try .[[]] catch 0
       TryCatch(Times(999999), Lit(0)),                         \* 18 try (.*999999) catch 0
       Variable(Names.x),                                        \* 19 $x
       Variable(Names.none),                                     \* 20 $none
       Pipe(Assign(Names.x, Lit(1)), Variable(Names.x)),          \* 21 $x = 1 | $x
       Pipe(Assign(Names.v, Lit(1)),
            Comma(CustomFunction(Names.inner, <<Lit(2)>>), Variable(Names.v))),
                                                                \* 22 $v = 1 | inner(2), $v
       Pipe(Lit(5), CustomFunction(Names.bar, <<Times(2)>>)),    \* 23 5|bar(.*2)
       Pipe(Lit(5), CustomFunction(Names.baz, <<Times(2)>>)),    \* 24 5|baz(.*2)
       Pipe(Lit(5), CustomFunction(Names.foo, <<Times(2), Times(2)>>)),
                                                                \* 25 5|foo(.*2; .*2)
       Path(Ident, <<PathIndex(Comma(Key(<<"a">>), Key(<<"b">>)), FALSE)>>),
                                                                \* 26 .["a","b"]
       Path(Ident, <<PathIndex(Comma(Lit(7), Lit(0)), TRUE)>>), \* 27 .[7,0]?
       Path(Ident, <<PathIndex(Comma(Lit(0), Lit(7)), FALSE)>>),\* 28 .[0,7]
       CustomFunction(Names.foo, <<Lit(1), Variable(Names.none)>>),
                                                                \* 29 foo(1; $none)
       TryCatch(CustomFunction(Names.foo, <<Lit(1), Variable(Names.none)>>),
                Variable(Names.a)),             \* 30 try foo(1; $none) catch $a
       Comma(CustomFunction(Names.inner, <<Lit(2)>>), Variable(Names.v)),
                                                                \* 31 inner(2), $v
       Assign(Names.v, Comma(Lit(2), Lit(1))),                  \* 32 $v = (2, 1)
       Pipe(Assign(Names.v, Lit(1)),
            Comma(CustomFunction(Names.bar, <<Assign(Names.v, Lit(7))>>),
                  Variable(Names.v))),           \* 33 $v = 1 | bar($v = 7), $v
       Assign(Names.v, Empty),                                  \* 34 $v = empty
       Assign(Names.v, Variable(Names.none)),                   \* 35 $v = $none
       CustomFunction(Names.snd, <<Empty, Lit(7)>>),             \* 36 snd(empty; 7)
       CustomFunction(Names.fst, <<Empty, Lit(7)>>),             \* 37 fst(empty; 7)
       CustomFunction(Names.snd, <<Comma(Lit(1), Lit(2)), Lit(7)>>),
                                                                \* 38 snd((1,2); 7)
       CustomFunction(Names.fst, <<Comma(Lit(1), Lit(2)), Lit(7)>>),
                                                                \* 39 fst((1,2); 7)
       Path(Ident, <<PathRange(None, None, TRUE)>>),            \* 40 .[]?
       Path(Ident, <<PathRange(None, None, FALSE)>>)            \* 41 .[]
    >>

\* The evaluations run: an expression and the input slice it is given.
Cases ==
    { <<1, 1>>, <<1, 3>>, <<2, 1>>, <<2, 2>>, <<3, 1>>, <<4, 3>>, <<5, 1>>,
      <<6, 2>>, <<7, 2>>, <<8, 1>>, <<9, 1>>, <<10, 4>>, <<10, 5>>, <<11, 4>>,
      <<11, 5>>, <<12, 4>>, <<13, 3>>, <<14, 3>>, <<15, 1>>, <<16, 1>>,
      <<17, 1>>, <<18, 2>>, <<19, 1>>, <<20, 1>>, <<21, 1>>, <<22, 1>>,
      <<23, 1>>, <<24, 1>>, <<25, 1>>, <<26, 4>>, <<27, 6>>, <<28, 6>>,
      <<29, 1>>, <<30, 1>>, <<31, 1>>, <<32, 1>>, <<33, 1>>, <<34, 1>>,
      <<35, 1>>, <<36, 1>>, <<37, 1>>, <<38, 1>>, <<39, 1>>, <<40, 1>>,
      <<40, 3>>, <<40, 6>>, <<41, 1>> }

InitExp ==
    /\ EnvInit
    /\ debug_command = FALSE
    /\ CondIdle
    /\ IdIdle
    /\ RegIdle
    /\ ex_env = TestEnv
    /\ ex_params = ModuleParams
    /\ ex_call = None
    /\ OthersIdle

\* What the caller keeps of an ExpParams between evaluations.
Kept(P) == [P EXCEPT !.log = <<>>]

\* The record of one top-level evaluation.
ExCall(e, s, before, r) ==
    [e |-> e, s |-> s, before |-> before, after |-> Kept(r.params),
     ok |-> r.ok, vals |-> r.vals, err |-> r.err, log |-> r.params.log]

\* A top-level evaluation: exp.eval(ctx) on an input slice.
Eval(e, s) ==
    \E r \in {eval_slice(Exps[e], Slices[s], 1, <<>>, ex_env, ex_params)} :
        /\ ex_params' = Kept(r.params)
        /\ ex_call' = Some(ExCall(e, s, ex_params, r))
        /\ UNCHANGED <<engine_vars, cg_vars, id_vars, rg_vars, more_vars, ex_env>>

\* The caller resets the budget: params.reset_exec().
ResetExec ==
    /\ ex_params.execution_limit < EXECUTION_LIMIT
    /\ ex_params' = reset_exec(ex_params)
    /\ ex_call' = None
    /\ UNCHANGED <<engine_vars, cg_vars, id_vars, rg_vars, more_vars, ex_env>>

NextExp ==
    \/ \E c \in Cases : Eval(c[1], c[2])
    \/ ResetExec

SpecExp == InitExp /\ [][NextExp]_vars

----------------------------------------------------------------------------
(* Claims about the expression evaluator *)

\* The last call of consume_exec of an evaluation asked for more than was left.
LastConsumeFailed(c) ==
    /\ c.log # <<>>
    /\ c.log[Len(c.log)].before < c.log[Len(c.log)].n

\* C11: an evaluation stays within the step budget. Every call of consume_exec
\* starts from the budget the previous one left, takes exactly the units asked
\* for when the budget covers them and nothing otherwise, so the budget never
\* grows and never goes below zero; an evaluation whose last consumption was
\* not covered fails with ExecutionLimitExceeded; every evaluation of a
\* sub-expression on one value costs at least one unit, so no more than
\* EXECUTION_LIMIT of them happen between two resets, recursive functions
\* included.
C11_BudgetBoundsEvaluation ==
    ex_call # None =>
        LET c == ex_call[1]
        IN  /\ \A i \in 1..Len(c.log) :
                   /\ c.log[i].before =
                          IF i = 1 THEN c.before.execution_limit
                          ELSE c.log[i - 1].after
                   /\ c.log[i].after >= 0
                   /\ c.log[i].after <= c.log[i].before
                   /\ c.log[i].after =
                          IF c.log[i].before >= c.log[i].n
                          THEN c.log[i].before - c.log[i].n
                          ELSE c.log[i].before
            /\ LastConsumeFailed(c) =>
                   (~c.ok) /\ c.err.kind = "ExecutionLimitExceeded"
            /\ c.after.evals - c.before.evals
                   <= c.before.execution_limit - c.after.execution_limit
            /\ c.after.evals <= EXECUTION_LIMIT

\* A recursive function was called with the full budget and was stopped after
\* exactly EXECUTION_LIMIT evaluations.
C11_Witness ==
    /\ ex_call # None
    /\ Exps[ex_call[1].e] = Call0(Names.rec)
    /\ ex_call[1].before.execution_limit = EXECUTION_LIMIT
    /\ ~ex_call[1].ok
    /\ ex_call[1].err.kind = "ExecutionLimitExceeded"
    /\ ex_call[1].after.evals = EXECUTION_LIMIT
    /\ ex_call[1].after.execution_limit = 0

\* C12: every top-level evaluation starts with the full budget
\* EXECUTION_LIMIT, whatever earlier evaluations on the same ExpParams used.
C12_TopLevelStartsFull ==
    ex_call # None => ex_call[1].before.execution_limit = EXECUTION_LIMIT

\* The last evaluation was `. * n` with an unsigned literal n on a single
\* string, started with enough budget to evaluate the operator and both
\* operands (three evaluations).
RepeatCall(c) ==
    /\ Exps[c.e].t = "BinOp"
    /\ Exps[c.e].op = "Mul"
    /\ Exps[c.e].lhs.t = "Ident"
    /\ Exps[c.e].rhs.t = "Value"
    /\ Exps[c.e].rhs.v.k = "U64"
    /\ Len(Slices[c.s]) = 1
    /\ Slices[c.s][1].k = "String"
    /\ c.before.execution_limit >= 3

\* C13: a string times an unsigned count n is charged n units before it is
\* built. With at least n units left after the operands the result is the
\* string repeated n times and the budget is n lower; with fewer the
\* evaluation fails with ExecutionLimitExceeded, yields nothing and the budget
\* stays as the operands left it.
C13_RepeatChargedFirst ==
    (ex_call # None /\ RepeatCall(ex_call[1])) =>
        LET c == ex_call[1]
            n == Exps[c.e].rhs.v.v
            s == Slices[c.s][1].v
            left == c.before.execution_limit - 3
        IN  IF left >= n
            THEN /\ c.ok
                 /\ Len(c.vals) = 1
                 /\ c.vals[1].k = "String"
                 /\ Len(c.vals[1].v) = n * Len(s)
                 /\ \A i \in 1..(n * Len(s)) :
                        c.vals[1].v[i] = s[((i - 1) % Len(s)) + 1]
                 /\ c.after.execution_limit = left - n
            ELSE /\ ~c.ok
                 /\ c.err.kind = "ExecutionLimitExceeded"
                 /\ c.vals = <<>>
                 /\ c.after.execution_limit = left

\* A string times 999999 with a fresh budget failed with
\* ExecutionLimitExceeded.
C13_Witness ==
    /\ ex_call # None
    /\ RepeatCall(ex_call[1])
    /\ Exps[ex_call[1].e].rhs.v.v = 999999
    /\ ex_call[1].before.execution_limit = EXECUTION_LIMIT
    /\ ~ex_call[1].ok
    /\ ex_call[1].err.kind = "ExecutionLimitExceeded"

\* The last evaluation ran expression e on slice s with at least b units.
Ran(e, s, b) ==
    /\ ex_call # None
    /\ ex_call[1].e = e
    /\ ex_call[1].s = s
    /\ ex_call[1].before.execution_limit >= b

\* The last evaluation succeeded with the values vs.
Yields(vs) == ex_call[1].ok /\ ex_call[1].vals = vs

\* C14: comma yields the left outputs and then the right outputs on the same
\* input, pipe yields the right side's outputs for each left output in turn,
\* and a slice of inputs yields the results per input in the order of the
\* inputs: `.,.,.|.,.` on one input gives that input six times,
\* `1,2|.,.*10` gives 1, 10, 2, 20, and `89,55,.+.` on ["input", 123] gives
\* 89, 55, "inputinput", 89, 55, 246.
C14_CommaPipeMultiplex ==
    /\ \A s \in {1, 2} :
           Ran(2, s, 15) => Yields([i \in 1..6 |-> Slices[s][1]])
    /\ Ran(3, 1, 14) => Yields(<<U64(1), U64(10), U64(2), U64(20)>>)
    /\ Ran(4, 3, 14) =>
           Yields(<<U64(89), U64(55), String(Input.v \o Input.v),
                    U64(89), U64(55), U64(246)>>)
    /\ Ran(1, 3, 2) => Yields(<<Input, U64(123)>>)

\* `.,.,.|.,.` was evaluated on the single input 5 and gave six values.
C14_Witness ==
    /\ Ran(2, 1, 15)
    /\ Exps[2] = Pipe(Comma3, Comma(Ident, Ident))
    /\ Slices[1] = <<U64(5)>>
    /\ Len(ex_call[1].vals) = 6

\* The last evaluation failed with the error kind, returning no values.
Fails(kind) ==
    /\ ~ex_call[1].ok
    /\ ex_call[1].err.kind = kind
    /\ ex_call[1].vals = <<>>

\* C15: a lookup of a missing key or index with `?` raises no error and adds
\* no value for that pair of index and value, while the other pairs add
\* theirs; without `?` the whole evaluation fails with the key-not-found error
\* and returns no values, also when earlier pairs had found theirs.
C15_OptionalIndexSkipsMissing ==
    /\ Ran(10, 4, 3) => Yields(<<>>)
    /\ Ran(10, 5, 6) => Yields(<<U64(2)>>)
    /\ Ran(12, 4, 5) => Yields(<<U64(1)>>)
    /\ Ran(27, 6, 5) => Yields(<<U64(1)>>)
    /\ Ran(11, 4, 3) => Fails("KeyNotFound")
    /\ Ran(11, 5, 3) => Fails("KeyNotFound")
    /\ Ran(26, 4, 5) => Fails("KeyNotFound")
    /\ Ran(28, 6, 5) => Fails("KeyNotFound")

\* `.["b","a"]?` was evaluated on an object that has the key a only and gave
\* the value of a.
C15_Witness ==
    /\ Ran(12, 4, 5)
    /\ Exps[12] = Path(Ident, <<PathIndex(Comma(Key(<<"b">>), Key(<<"a">>)), TRUE)>>)
    /\ Slices[4] = <<ObjA>>
    /\ ex_call[1].ok
    /\ Len(ex_call[1].vals) = 1

\* The expressions `try l catch r` whose l fails on the input they are run on:
\* with a user-raised error after a first output, an undefined variable, an
\* invalid key, and the execution limit.
FailingTries == {<<15, 1>>, <<16, 1>>, <<17, 1>>, <<18, 2>>}

\* C16: try/catch returns the left outputs when the left side succeeds; when
\* it fails, with whatever kind of error, the result is that of the right
\* side on the same input and holds none of the left side's outputs:
\* `try (.-5) catch 0` on ["input", 123] gives 0, 118; `try (1, error("x"))
\* catch 0` gives 0 alone; `try $none catch .` gives the input; and no such
\* evaluation ends with the left side's error.
C16_TryCatchReturnsRight ==
    /\ Ran(14, 3, 9) => Yields(<<U64(0), U64(118)>>)
    /\ Ran(15, 1, 6) => Yields(<<U64(0)>>)
    /\ Ran(16, 1, 3) => Yields(<<U64(5)>>)
    /\ Ran(17, 1, 5) => Yields(<<U64(0)>>)
    /\ Ran(18, 2, 5) => Yields(<<U64(0)>>)
    /\ \A t \in FailingTries :
           Ran(t[1], t[2], 0) =>
               \/ Yields(IF Exps[t[1]].rhs.t = "Ident" THEN Slices[t[2]]
                         ELSE <<U64(0)>>)
               \/ Fails("ExecutionLimitExceeded")

\* `try (1, error("x")) catch 0` was evaluated: the left side had produced 1
\* before it failed, and the result is 0 alone.
C16_Witness ==
    /\ Ran(15, 1, 6)
    /\ Exps[15] = TryCatch(Comma(Lit(1), Error(Key(<<"x">>))), Lit(0))
    /\ ex_call[1].ok
    /\ ex_call[1].vals = <<U64(0)>>

\* C17: a variable read gives the host environment's value when the host
\* defines the name, also when a scope binds it; otherwise the binding of the
\* innermost scope that has one; otherwise it fails with UndefinedVariable.
\* With a host defining $x as 42: `$x` gives 42, `$x = 1 | $x` gives 42 and
\* leaves $x bound to 1 in the scope, `$v = 1 | inner(2), $v` with
\* `def inner($v): $v` gives 2 and then 1, and `$none` fails.
C17_VariableLookupOrder ==
    /\ Ran(19, 1, 1) => Yields(<<U64(42)>>)
    /\ Ran(21, 1, 4) =>
           /\ Yields(<<U64(42)>>)
           /\ get_var(ex_call[1].after, Names.x) = Some(U64(1))
    /\ Ran(22, 1, 8) => Yields(<<U64(2), U64(1)>>)
    /\ Ran(20, 1, 1) => Fails("UndefinedVariable")

\* `$v = 1 | inner(2), $v` was evaluated: inside the call the parameter's
\* scope and the caller's scope both bound $v.
C17_Witness ==
    /\ Ran(22, 1, 8)
    /\ ex_call[1].ok
    /\ Len(ex_call[1].vals) = 2
    /\ get_var(ex_call[1].after, Names.v) = Some(U64(1))
    /\ env_get_var(ex_env, Names.v) = None
    /\ env_get_var(ex_env, Names.x) = Some(U64(42))

\* C18: an argument for a `$` parameter is evaluated once, before the call, on
\* the caller's input; an argument for any other parameter is evaluated each
\* time the body refers to the parameter, on the input at that place. On the
\* input 5, `bar(.*2)` with `def bar(f): f|f` gives 20, `baz(.*2)` with
\* `def baz($f): $f|$f` gives 10, and `foo(.*2; .*2)` with
\* `def foo($a; b): [$a|$a, b|b]` gives [20, 40].
C18_EagerAndByNameArguments ==
    /\ Ran(23, 1, 12) => Yields(<<U64(20)>>)
    /\ Ran(24, 1, 9) => Yields(<<U64(10)>>)
    /\ Ran(25, 1, 24) => Yields(<<Array(<<U64(20), U64(40)>>)>>)

\* `5|baz(.*2)` and its `$f` parameter: the call was evaluated and gave 10.
C18_Witness ==
    /\ Ran(24, 1, 9)
    /\ Exps[24] = Pipe(Lit(5), CustomFunction(Names.baz, <<Times(2)>>))
    /\ ModuleFuncs[2].v.args = <<Names.df>>
    /\ ex_call[1].vals = <<U64(10)>>

\* C34: scope push and pop form a strict stack discipline.  After an
\* evaluation, whether the functions it called succeeded or failed, the scope
\* stack is as deep as before, and it is never empty while the evaluation
\* runs; the bindings made for a call's parameters are gone once the call has
\* returned: with `def foo($a; b): [$a|$a, b|b]`, `foo(1; $none)` fails and
\* leaves the scopes as they were, `try foo(1; $none) catch $a` fails with
\* UndefinedVariable, and so does `inner(2), $v` with `def inner($v): $v`
\* where the caller has not bound $v.
C34_ScopesAreBalanced ==
    ex_call # None =>
        LET c == ex_call[1]
        IN  /\ Len(c.after.vars) = Len(c.before.vars)
            /\ Len(c.after.vars) >= 1
            /\ \A i \in 1..Len(c.log) : c.log[i].depth >= 1
            /\ c.e \notin {21, 22, 32, 33} => c.after.vars = c.before.vars
            /\ Ran(29, 1, 12) => Fails("UndefinedVariable")
            /\ Ran(30, 1, 12) => Fails("UndefinedVariable")
            /\ (Ran(31, 1, 12) /\ get_var(c.before, Names.v) = None)
                   => Fails("UndefinedVariable")

\* `try foo(1; $none) catch $a` was evaluated: the body of foo failed two
\* scopes deep, and the catch branch no longer saw $a.
C34_Witness ==
    /\ Ran(30, 1, 12)
    /\ Fails("UndefinedVariable")
    /\ \E i \in 1..Len(ex_call[1].log) : ex_call[1].log[i].depth = 3
    /\ Len(ex_call[1].after.vars) = 1
    /\ get_var(ex_call[1].after, Names.a) = None

\* The scopes `before` with name bound to val in the innermost one.
Bound(before, name, val) ==
    [before EXCEPT ![Len(before)] =
        map_insert(@, def_id(name, 0), [t |-> "Value", v |-> val])]

\* C35: an assignment yields all values of its expression unchanged and binds
\* the name, in the innermost scope only, to the last of them; a binding of
\* the same name in an outer scope is not modified; when the expression
\* yields no value or fails nothing is bound or changed.  `$v = (2, 1)`
\* gives 2, 1 and binds $v to 1; `$v = 1 | bar($v = 7), $v` with
\* `def bar(f): f|f` gives 7 and then 1; `$v = empty` and `$v = $none` leave
\* the scopes as they were.
C35_AssignBindsInnermost ==
    /\ Ran(32, 1, 6) =>
           /\ Yields(<<U64(2), U64(1)>>)
           /\ ex_call[1].after.vars = Bound(ex_call[1].before.vars, Names.v, U64(1))
    /\ Ran(33, 1, 16) =>
           /\ Yields(<<U64(7), U64(1)>>)
           /\ ex_call[1].after.vars = Bound(ex_call[1].before.vars, Names.v, U64(1))
    /\ Ran(34, 1, 4) =>
           /\ Yields(<<>>)
           /\ ex_call[1].after.vars = ex_call[1].before.vars
    /\ Ran(35, 1, 4) =>
           /\ Fails("UndefinedVariable")
           /\ ex_call[1].after.vars = ex_call[1].before.vars

\* `$v = 1 | bar($v = 7), $v` was evaluated: the argument assigned $v two
\* scopes inside the one where the caller had bound it.
C35_Witness ==
    /\ Ran(33, 1, 16)
    /\ ex_call[1].vals = <<U64(7), U64(1)>>
    /\ \E i \in 1..Len(ex_call[1].log) : ex_call[1].log[i].depth = 3
    /\ get_var(ex_call[1].after, Names.v) = Some(U64(1))

----------------------------------------------------------------------------
(* Object ids: ObjectIdCounter and the cards that draw their ids from it *)

MAX_RESERVED_ID == 100

\* The most cards alive at once.
MaxCards == 3

\* The base ids a deck item may carry: none, zero, pinned ids at both ends of
\* the reserved range, and one above it.
BaseIds == {None, Some(0), Some(1), Some(2), Some(MAX_RESERVED_ID),
            Some(MAX_RESERVED_ID + 1)}

\* Faulty variant of allocate: every base id above zero is handed back.
allocate_any_base(counter, base_id) ==
    IF base_id # None /\ base_id[1] > 0
    THEN [id |-> base_id[1], counter |-> counter]
    ELSE [id |-> counter + 1, counter |-> counter + 1]

\* ObjectIdCounter::allocate(base_id): the id handed out and the counter
\* after. (The counter is a u64; it does not wrap within MaxCards cards.)
allocate(counter, base_id) ==
    IF base_id # None /\ base_id[1] > 0 /\ base_id[1] <= MAX_RESERVED_ID
    THEN [id |-> base_id[1], counter |-> counter]
    ELSE [id |-> counter + 1, counter |-> counter + 1]

InitId ==
    /\ EnvInit
    /\ debug_command = FALSE
    /\ CondIdle
    /\ ExpIdle
    /\ RegIdle
    /\ id_counter = MAX_RESERVED_ID
    /\ id_cards = <<>>
    /\ id_copy = None
    /\ OthersIdle

\* Card::new(counter, item, ..): a card comes into the game from a deck item.
\* Deck items are taken to carry different pinned ids: a base id some live
\* card or copy holds is not drawn again.
CardNew(base_id) ==
    /\ Len(id_cards) < MaxCards
    /\ base_id # None =>
           /\ \A i \in 1..Len(id_cards) : id_cards[i] # base_id[1]
           /\ id_copy # base_id
    /\ \E r \in {allocate(id_counter, base_id)} :
           /\ id_cards' = Append(id_cards, r.id)
           /\ id_counter' = r.counter
    /\ UNCHANGED <<engine_vars, cg_vars, ex_vars, rg_vars, more_vars, id_copy>>

\* Card::duplicate(): a copy of a live card, holding the card's id.
Duplicate(i) ==
    /\ Len(id_cards) < MaxCards
    /\ id_copy = None
    /\ id_copy' = Some(id_cards[i])
    /\ UNCHANGED <<engine_vars, cg_vars, ex_vars, rg_vars, more_vars, id_counter, id_cards>>

\* Card::renew_id(counter) on the copy, which then joins the live cards.
RenewId ==
    /\ id_copy # None
    /\ \E r \in {allocate(id_counter, Some(id_copy[1]))} :
           /\ id_cards' = Append(id_cards, r.id)
           /\ id_counter' = r.counter
    /\ id_copy' = None
    /\ UNCHANGED <<engine_vars, cg_vars, ex_vars, rg_vars, more_vars>>

\* A card leaves the game. (No more than MaxCards ids are drawn from the
\* counter, which bounds the run.)
Destroy(i) ==
    /\ id_counter < MAX_RESERVED_ID + MaxCards
    /\ id_cards' = SubSeq(id_cards, 1, i - 1) \o SubSeq(id_cards, i + 1, Len(id_cards))
    /\ UNCHANGED <<engine_vars, cg_vars, ex_vars, rg_vars, more_vars, id_counter, id_copy>>

NextId ==
    \/ \E b \in BaseIds : CardNew(b)
    \/ \E i \in 1..Len(id_cards) : Duplicate(i)
    \/ RenewId
    \/ \E i \in 1..Len(id_cards) : Destroy(i)

SpecId == InitId /\ [][NextId]_vars

\* C19: at every point of a game no two live cards hold the same ObjectId,
\* whether the id came from Card::new or from Card::renew_id on a copy, and
\* also when the base id lies in the reserved range 1..=MAX_RESERVED_ID.
C19_LiveIdsDistinct ==
    \A i, j \in 1..Len(id_cards) : i # j => id_cards[i] # id_cards[j]

----------------------------------------------------------------------------
(* Regulation::verify on drawn regulations and deck lists *)

\* The values of a u8.
U8 == 2 ^ 8

\* Regulation::STANDARD, as far as verify reads it.
STANDARD == [max_deck_size |-> 20, min_deck_size |-> 20, max_same_cards |-> 4]

\* The regulations checked: the standard one and others within u8.
Regulations ==
    {STANDARD} \cup
    {[max_deck_size |-> M, min_deck_size |-> m, max_same_cards |-> c] :
         M \in {20, 24, U8 - 1}, m \in {0, 20}, c \in {4, 5, U8 - 1}}

\* A deck list of k archetypes with c cards of each, archetype after archetype.
DeckOf(k, c) == [i \in 1..(k * c) |-> ((i - 1) \div c) + 1]

\* The deck lists checked, among them lists longer than a u8 counts.
Decks ==
    {DeckOf(s[1], s[2]) :
         s \in {<<1, 1>>, <<1, 4>>, <<1, 5>>, <<4, 5>>, <<5, 4>>, <<5, 5>>,
                <<6, 4>>, <<20, 1>>, <<69, 4>>, <<70, 4>>, <<1, U8>>,
                <<1, U8 + 20>>}}
        \cup {<<1, 2, 1, 2, 1, 2, 1, 2, 3, 1>>,
              <<1, 2, 3, 4, 5, 1, 2, 3, 4, 5, 1, 2, 3, 4, 5, 1, 2, 3, 4, 5,
                6, 6, 6, 6, 6>>}

\* What a call of verify comes to: the value returned, or a panic.
Returned(b) == [panic |-> FALSE, value |-> b]
Panicked == [panic |-> TRUE, value |-> FALSE]

\* The count the loop holds for the archetype of card n once it has added
\* card n: a u8, so the number of such cards among the first n, modulo 2^8.
entry(cards, n) ==
    Cardinality({i \in 1..n : cards[i] = cards[n]}) % U8

\* The cards at which the loop returns false: the count exceeds the limit.
excess(reg, cards) ==
    {n \in 1..Len(cards) : entry(cards, n) > reg.max_same_cards}

\* The cards at which `*entry += 1` overflows the u8, reached by the loop.
overflow(reg, cards) ==
    {n \in 1..Len(cards) :
         /\ entry(cards, n) = 0
         /\ \A m \in excess(reg, cards) : n <= m}

\* The size test after the loop, on the length cast to u8.
size_ok(reg, cards) ==
    LET size == Len(cards) % U8
    IN  size >= reg.min_deck_size /\ size <= reg.max_deck_size

\* Regulation::verify(deck): its outcomes. An overflowing addition panics in
\* a build that checks overflow and wraps to 0 in one that does not.
verify(reg, cards) ==
    {Returned(excess(reg, cards) = {} /\ size_ok(reg, cards))}
        \cup (IF overflow(reg, cards) # {} THEN {Panicked} ELSE {})

InitReg ==
    /\ EnvInit
    /\ debug_command = FALSE
    /\ CondIdle
    /\ ExpIdle
    /\ IdIdle
    /\ rg_regulation \in Regulations
    /\ rg_deck \in Decks
    /\ rg_result = None
    /\ OthersIdle

Verify ==
    /\ rg_result = None
    /\ \E r \in verify(rg_regulation, rg_deck) : rg_result' = Some(r)
    /\ UNCHANGED <<engine_vars, cg_vars, ex_vars, id_vars, more_vars, rg_regulation, rg_deck>>

NextReg == Verify

SpecReg == InitReg /\ [][NextReg]_vars

\* The number of cards of archetype a in a deck list.
Copies(cards, a) == Cardinality({i \in 1..Len(cards) : cards[i] = a})

\* C20: verify returns true exactly when no archetype occurs more than
\* max_same_cards times and the number of cards lies within
\* [min_deck_size, max_deck_size], whatever the length of the deck list,
\* lengths above 255 included.
C20_VerifyExact ==
    rg_result # None =>
        /\ ~rg_result[1].panic
        /\ rg_result[1].value =
               (/\ \A i \in 1..Len(rg_deck) :
                       Copies(rg_deck, rg_deck[i]) <= rg_regulation.max_same_cards
                /\ Len(rg_deck) >= rg_regulation.min_deck_size
                /\ Len(rg_deck) <= rg_regulation.max_deck_size)

\* Some archetype occurs more often in the deck list than the regulation allows.
TooManyCopies ==
    \E i \in 1..Len(rg_deck) :
        Copies(rg_deck, rg_deck[i]) > rg_regulation.max_same_cards

\* C21: for a deck list in which some archetype occurs more than
\* max_same_cards times, verify returns false, whatever the size of the list
\* and the places of the duplicates in it.
C21_DuplicatesRejected ==
    (rg_result # None /\ TooManyCopies) => rg_result[1] = Returned(FALSE)

----------------------------------------------------------------------------
(* ShardList: get, add, consume *)

\* Largest amount of one color held in the lists checked.
MaxAmount == 3

Colors == {"Red", "Blue"}

\* The index of the first entry of a color in the Vec, 0 when there is none.
shard_find(list, color) ==
    IF \E i \in 1..Len(list) : list[i][1] = color
    THEN CHOOSE i \in 1..Len(list) :
             /\ list[i][1] = color
             /\ \A j \in 1..(i - 1) : list[j][1] # color
    ELSE 0

\* ShardList::get(color).
shard_get(list, color) ==
    LET i == shard_find(list, color)
    IN  IF i = 0 THEN 0 ELSE list[i][2]

\* ShardList::add(color, amount).
shard_add(list, color, amount) ==
    LET i == shard_find(list, color)
    IN  IF i = 0 THEN Append(list, <<color, amount>>)
        ELSE [list EXCEPT ![i] = <<color, @[2] + amount>>]

\* ShardList::consume(color, amount): the list left and whether it is Ok.
shard_consume(list, color, amount) ==
    LET i == shard_find(list, color)
        enough == i # 0 /\ list[i][2] >= amount
        written == IF i = 0 THEN list
                   ELSE IF enough
                   THEN [list EXCEPT ![i] = <<color, @[2] - amount>>]
                   ELSE [list EXCEPT ![i] = <<color, 0>>]
    IN  [list |-> SelectSeq(written, LAMBDA s : s[2] > 0), ok |-> enough]

InitShard ==
    /\ EnvInit
    /\ debug_command = FALSE
    /\ CondIdle
    /\ ExpIdle
    /\ IdIdle
    /\ RegIdle
    /\ EffectsIdle
    /\ CardIdle
    /\ sh_shards = <<>>
    /\ sh_call = [op |-> "new", color |-> "Red", amount |-> 0,
                  before |-> <<>>, ok |-> TRUE]

ShardAdd(color, amount) ==
    /\ shard_get(sh_shards, color) + amount <= MaxAmount
    /\ sh_shards' = shard_add(sh_shards, color, amount)
    /\ sh_call' = [op |-> "add", color |-> color, amount |-> amount,
                   before |-> sh_shards, ok |-> TRUE]
    /\ UNCHANGED <<engine_vars, cg_vars, ex_vars, id_vars, rg_vars, ce_vars, cd_vars>>

ShardConsume(color, amount) ==
    \E r \in {shard_consume(sh_shards, color, amount)} :
        /\ sh_shards' = r.list
        /\ sh_call' = [op |-> "consume", color |-> color, amount |-> amount,
                       before |-> sh_shards, ok |-> r.ok]
        /\ UNCHANGED <<engine_vars, cg_vars, ex_vars, id_vars, rg_vars, ce_vars, cd_vars>>

NextShard ==
    \E color \in Colors, amount \in 0..MaxAmount :
        \/ ShardAdd(color, amount)
        \/ ShardConsume(color, amount)

SpecShard == InitShard /\ [][NextShard]_vars

\* C22: when consume(color, amount) returns InsufficientShards, the amount
\* held for every color, the requested one included, is what it was before
\* the call.
C22_FailedConsumeChangesNothing ==
    (sh_call.op = "consume" /\ ~sh_call.ok) =>
        \A c \in Colors : shard_get(sh_shards, c) = shard_get(sh_call.before, c)

----------------------------------------------------------------------------
(* Environment::compute_effects on drawn zones and continuous effects *)

\* The cards of the zones checked, and the attributes of their archetypes.
Cards == 1..3

Attr(cost, power) == [cost |-> cost, power |-> power]

archetype(id) == IF id = 1 THEN Attr(1, 1) ELSE IF id = 2 THEN Attr(2, 0) ELSE Attr(0, 2)

\* A card on a field and an item of a hand, with the computed attributes held.
FieldCard(id, attrs) == [id |-> id, computed |-> attrs]

HandItem(id, cost_delta, attrs) ==
    [id |-> id, cost_delta |-> cost_delta, computed |-> attrs]

\* The continuous effects that may be registered: the source card raises the
\* power of the cards on its controller's field, raises the cost of the
\* cards in the other player's hand, or gives its controller an ability.
Effects ==
    {[source |-> 1, kind |-> "Power"], [source |-> 2, kind |-> "Cost"],
     [source |-> 3, kind |-> "Ability"]}

\* The player on whose field a card lies, if any.
field_of(st, id) ==
    {p \in PlayerIds : \E i \in 1..Len(st.players[p].field) :
                           st.players[p].field[i].id = id}

hand_of(st, id) ==
    {p \in PlayerIds : \E i \in 1..Len(st.players[p].hand) :
                           st.players[p].hand[i].id = id}

\* ContinuousEffectList::apply_player: the abilities the effects give a side.
apply_player(st, side) ==
    {"Ability" : e \in {x \in st.continuous :
                            x.kind = "Ability" /\ side \in field_of(st, x.source)}}

\* ContinuousEffectList::apply_card: the archetype's attributes plus the
\* deltas of the effects that apply to the card.
apply_card(st, id) ==
    LET power == Cardinality({e \in st.continuous :
                     /\ e.kind = "Power"
                     /\ field_of(st, e.source) \cap field_of(st, id) # {}})
        cost == Cardinality({e \in st.continuous :
                     /\ e.kind = "Cost"
                     /\ \E p \in field_of(st, e.source) :
                            players_next(p) \in hand_of(st, id)})
    IN  Attr(archetype(id).cost + cost, archetype(id).power + power)

\* Faulty variant of hand_state: the delta is added to the cost the item
\* already holds.
hand_state_patched(st, item) ==
    [apply_card(st, item.id) EXCEPT !.cost = item.computed.cost + item.cost_delta]

\* The closure over hand items: the attributes of the item's card with the
\* item's cost delta added to the cost.
hand_state(st, item) ==
    [apply_card(st, item.id) EXCEPT !.cost = @ + item.cost_delta]

\* Zone::update_computed: the states are stored in the cards, in order.
update_computed(zone, states) ==
    [i \in 1..Len(zone) |-> [zone[i] EXCEPT !.computed = states[i]]]

\* The body of the loop over sides.
compute_side(st, side) ==
    LET abilities == apply_player(st, side)
        player == st.players[side]
        field_states == [i \in 1..Len(player.field) |->
                             apply_card(st, player.field[i].id)]
        hand_states == [i \in 1..Len(player.hand) |->
                            hand_state(st, player.hand[i])]
    IN  [st EXCEPT !.players[side] =
            [abilities |-> abilities,
             field |-> update_computed(player.field, field_states),
             hand |-> update_computed(player.hand, hand_states)]]

RECURSIVE compute_sides(_, _)
compute_sides(st, sides) ==
    IF sides = <<>> THEN st
    ELSE compute_sides(compute_side(st, Head(sides)), Tail(sides))

\* Environment::compute_effects.
compute_effects(st) == compute_sides(st, Players)

\* Where a card may lie, and the cost deltas the hand items may carry.
Places == {"none", "fieldA", "handA", "fieldB", "handB"}

CostDeltas == {[id \in Cards |-> 0], [id \in Cards |-> 1],
               [id \in Cards |-> id - 2]}

\* The attributes the cards hold before the first recomputation: those of
\* the archetype (Card::new), or those left by effects no longer registered.
Held == {[id \in Cards |-> archetype(id)], [id \in Cards |-> Attr(3, 3)]}

\* The cards lying in a place, by increasing id.
in_place(where, place) ==
    LET ids == {id \in Cards : where[id] = place}
        RECURSIVE sorted(_)
        sorted(S) == IF S = {} THEN <<>>
                     ELSE LET m == CHOOSE x \in S : \A y \in S : x <= y
                          IN  <<m>> \o sorted(S \ {m})
    IN  sorted(ids)

\* The state with the cards laid out as `where` says.
laid_out(where, delta, held, registered) ==
    [players |->
        [p \in PlayerIds |->
            LET f == in_place(where, IF p = "A" THEN "fieldA" ELSE "fieldB")
                h == in_place(where, IF p = "A" THEN "handA" ELSE "handB")
            IN  [abilities |-> {},
                 field |-> [i \in 1..Len(f) |-> FieldCard(f[i], held[f[i]])],
                 hand |-> [i \in 1..Len(h) |->
                               HandItem(h[i], delta[h[i]], held[h[i]])]]],
     continuous |-> registered]

InitEffects ==
    /\ EnvInit
    /\ debug_command = FALSE
    /\ CondIdle
    /\ ExpIdle
    /\ IdIdle
    /\ RegIdle
    /\ ShardIdle
    /\ CardIdle
    /\ \E where \in [Cards -> Places], delta \in CostDeltas, held \in Held,
          registered \in SUBSET Effects :
           ce_state = laid_out(where, delta, held, registered)
    /\ ce_runs = 0

\* MaxRuns recomputations in a row, nothing in between.
MaxRuns == 2

ComputeEffects ==
    /\ ce_runs < MaxRuns
    /\ ce_state' = compute_effects(ce_state)
    /\ ce_runs' = ce_runs + 1
    /\ UNCHANGED <<engine_vars, cg_vars, ex_vars, id_vars, rg_vars, sh_vars, cd_vars>>

NextEffects == ComputeEffects

SpecEffects == InitEffects /\ [][NextEffects]_vars

\* C23: a recomputation that follows another with nothing in between leaves
\* every player's abilities and the computed attributes of every card on a
\* field and in a hand as the first left them; the cost delta of a hand item
\* is not added a second time.
C23_RecomputationIdempotent ==
    [][(ce_runs >= 1 /\ ce_runs' = ce_runs + 1) => ce_state' = ce_state]_vars

C23_Witness ==
    /\ ce_runs = MaxRuns
    /\ ce_state.continuous = Effects
    /\ ce_state.players["A"].abilities # {}
    /\ \E i \in 1..Len(ce_state.players["B"].hand) :
           LET item == ce_state.players["B"].hand[i]
           IN  /\ item.cost_delta # 0
               /\ item.computed.cost = archetype(item.id).cost + 1 + item.cost_delta

----------------------------------------------------------------------------
(* Claims about process_turn: debug commands, prompts, stack items *)

\* The queue q without its first n batches.
Drop(n, q) == SubSeq(q, n + 1, Len(q))

\* C24: the commands of an accepted DebugCommand action are expanded and
\* their batches appended to the opcode queue when the config has the
\* DEBUG_COMMAND flag; without the flag the call enqueues nothing from them.
\* The queue after the call is the queue before it, then the batches of the
\* debug commands (flag set), then those of the phase advance (if the call
\* advanced the phase), less the batch the call executed.
C24_DebugCommandsNeedFlag ==
    [][last_available_actions # None =>
          \A p \in PlayerIds, cs \in DebugLists :
              \A i \in Inputs(p, Some(DebugCommand(cs))) :
                  \/ opcodes' =
                         Drop(call'.trace.executed,
                              opcodes
                                  \o (IF debug_command
                                      THEN expand_commands(cs) ELSE <<>>)
                                  \o (IF call'.trace.advanced /\ i[2].ok
                                      THEN i[2].opcodes ELSE <<>>))
                  \/ ~Process(p, Some(DebugCommand(cs)), i[1], i[2], i[3])]_vars

C24_Witness ==
    /\ debug_command
    /\ call.trace.path = "stack"
    /\ current = "A"
    /\ deck["B"] = DeckSize
    /\ Len(opcodes) >= 2
    /\ opcodes[Len(opcodes)] = <<Op("ReduceLife", "A")>>

\* C25: after every process() call the prompt on record is the
\* available_actions of the Report the call returned; a rejected call leaves
\* it as it was.
C25_RecordedPromptIsReported ==
    [][/\ last_available_actions' = report'.available_actions
       /\ call'.trace.path = "rejected"
              => last_available_actions' = last_available_actions]_vars

C25_Witness ==
    /\ call.trace.path = "rejected"
    /\ last_available_actions = Some(Avail("B", {"SelectCard"}))
    /\ report.available_actions = last_available_actions
    /\ stack # <<>>

\* The report of the step asks for input: it carries a non-empty set of
\* available actions.
AsksInput == 
    /\ report'.available_actions # None
    /\ report'.available_actions[1].actions # {}

\* The step returns the available actions the handler returned.
ReturnsHandlerPrompt ==
    /\ call'.trace.handler # None
    /\ call'.trace.handler[1].available_actions = report'.available_actions

\* The number of stack items the opcodes executed by the step pushed.
Triggered == Len(SelectSeq(report'.logs, LAMBDA l : l = "EffectTriggered"))

\* C26 as stated: after the handler of the popped item succeeds the item is
\* back on top of the stack if and only if the handler's report carries a
\* non-empty set of available actions; otherwise the stack is one item
\* shorter than before the call; the Report returns the handler's set.
C26_RepushedOrOneShorter ==
    [][call'.trace.path = "stack" =>
          /\ AsksInput => /\ stack' # <<>>
                          /\ stack'[Len(stack')] = stack[Len(stack)]
          /\ ~AsksInput => Len(stack') = Len(stack) - 1
          /\ ReturnsHandlerPrompt]_vars

\* C26, amended: the item is pushed back, on top, if and only if the
\* handler's report carries a non-empty set of available actions.  The stack
\* after the call is the items that lay below the item, then the items pushed
\* by the opcodes of the item's commands, then the item if it is pushed
\* back: one item shorter than before only when it is not pushed back and
\* its commands triggered no effect.  The Report returns the handler's set.
C26_RepushedAboveTriggered ==
    [][call'.trace.path = "stack" =>
          /\ Len(stack') = Len(stack) - 1 + Triggered + (IF AsksInput THEN 1 ELSE 0)
          /\ SubSeq(stack', 1, Len(stack) - 1) = SubSeq(stack, 1, Len(stack) - 1)
          /\ AsksInput => stack'[Len(stack')] = stack[Len(stack)]
          /\ ReturnsHandlerPrompt]_vars

C26_Witness ==
    /\ call.trace.path = "stack"
    /\ report.available_actions = None
    /\ report.logs = <<"EffectTriggered">>
    /\ Len(stack) = call.trace.stack_before
    /\ stack[Len(stack)] = [source |-> 2]

\* The batches a call may append to the queue before it looks at the stack:
\* those of an accepted DebugCommand action under the flag, or none.
Prepended ==
    {<<>>} \cup {expand_commands(cs) : cs \in {l \in DebugLists : debug_command}}

\* What the step does besides taking the failed item off the stack: nothing
\* of the item is applied, the phase is not advanced, and the front batch of
\* the queue, if there is one, is executed and its logs are reported.
OnlyResolutionAborted ==
    /\ SubSeq(stack', 1, Len(stack) - 1) = SubSeq(stack, 1, Len(stack) - 1)
    /\ continuous' = continuous
    /\ phase' = phase
    /\ ~call'.trace.advanced
    /\ call'.trace.handler = None
    /\ \E d \in Prepended :
           LET q == opcodes \o d
           IN  IF q = <<>>
               THEN /\ call'.trace.executed = 0
                    /\ opcodes' = <<>>
                    /\ UNCHANGED <<life, deck, current>>
                    /\ report'.logs = <<>>
               ELSE LET x == execute_all(env, Head(q), <<>>)
                    IN  /\ call'.trace.executed = 1
                        /\ opcodes' = Tail(q)
                        /\ life' = x.env.life
                        /\ deck' = x.env.deck
                        /\ current' = x.env.current
                        /\ report'.logs = x.logs

\* C27 as stated: when the handler of the popped item returns an error the
\* item is not pushed back and the stack is exactly one item lower after the
\* call; none of its commands or continuous effects are applied; the call
\* executes the next queued batch without advancing the phase and returns
\* a Report.
C27_HandlerErrorOneLower ==
    [][call'.trace.path = "stack_err" =>
          /\ Len(stack') = Len(stack) - 1
          /\ OnlyResolutionAborted]_vars

\* C27, amended: when the handler of the popped item returns an error the
\* item is not pushed back: the stack after the call is the items that lay
\* below it and, above them, the items pushed by the batch the call
\* executed (exactly one item lower when that batch triggers no effect).
\* None of the item's commands or continuous effects are applied; the call
\* executes the next queued batch without advancing the phase and returns
\* a Report.
C27_HandlerErrorAbortsItemOnly ==
    [][call'.trace.path = "stack_err" =>
          /\ Len(stack') = Len(stack) - 1 + Triggered
          /\ OnlyResolutionAborted]_vars

C27_Witness ==
    /\ call.trace.path = "stack_err"
    /\ call.trace.executed = 1
    /\ report.logs = <<"LifeChanged", "EffectTriggered">>
    /\ Len(stack) = call.trace.stack_before
    /\ stack[Len(stack)] = [source |-> 2]
    /\ phase = "Main"

\* The opcodes of a command list: those of each command that expands, in
\* order (every command modelled expands into one batch of one opcode).
OpsOf(cs) ==
    LET kept == SelectSeq(cs, LAMBDA c : into_opcodes(c).ok)
    IN  [k \in 1..Len(kept) |-> into_opcodes(kept[k]).codes[1][1]]

\* The opcodes of a list that execute, in order.  No list modelled changes
\* what a later opcode of the same list depends on, so each is judged on the
\* state before the call.
Done(ops) == SelectSeq(ops, LAMBDA o : execute(env, o).ok)

\* The step reports the logs of the opcodes of `ops` that execute, in order
\* (after the log of a targeted card, if the action selected one), and has
\* applied each of them.
Executed(ops) ==
    LET logs == [k \in 1..Len(Done(ops)) |-> execute(env, Done(ops)[k]).log[1]]
        count(op, arg) ==
            Cardinality({k \in 1..Len(Done(ops)) :
                             Done(ops)[k] = Op(op, arg)})
    IN  /\ report'.logs \in {logs, <<"CardsTargeted">> \o logs}
        /\ \A p \in PlayerIds :
               /\ life'[p] = IF life[p] > count("ReduceLife", p)
                             THEN life[p] - count("ReduceLife", p) ELSE 0
               /\ deck'[p] = deck[p] - count("DrawCard", p)
        /\ Triggered = Len(SelectSeq(ops, LAMBDA o : o.op = "TriggerEffect"))

\* The batch lists a phase advance of the step may have queued.
Queued ==
    IF call'.trace.advanced
    THEN {<<>>} \cup PhaseBatches(phase, current)
    ELSE {<<>>}

\* C28: a command that fails to expand, or an opcode that fails to execute,
\* is skipped and the call goes on: the remaining commands of the report and
\* the remaining opcodes of the batch are expanded and executed in order, and
\* the Report carries the logs of the opcodes that succeeded.
C28_FailuresAreSkipped ==
    [][/\ call'.trace.path = "stack"
              => Executed(OpsOf(call'.trace.handler[1].commands))
       /\ call'.trace.executed = 1
              => \E d \in Prepended, bs \in Queued :
                     LET q == opcodes \o d \o bs
                     IN  /\ q # <<>>
                         /\ opcodes' = Tail(q)
                         /\ Executed(Head(q))]_vars

C28_Witness ==
    /\ call.trace.path = "stack"
    /\ call.trace.handler[1].commands =
           <<Cmd("DestroyCard", "B"), Cmd("InflictDamage", "B")>>
    /\ report.logs = <<"CardsTargeted", "LifeChanged">>
    /\ life["B"] = InitialLife - 1

(* Claims about process_turn: a stack item whose source card is gone *)

\* C29: process() always completes and returns a Report; a pending stack
\* item whose source card is no longer in any player's zone is handled as an
\* error of that item and does not crash the engine.
C29_ProcessAlwaysReturns == call.trace.path # "panic"

(* Claims about process_turn: when the phase machine runs *)

\* C30: the phase machine is run (process_player_phase called, state.phase
\* rewritten) only by a call that finds the effect stack and the opcode queue
\* both empty; a call that finds a stack item or a queued batch never runs
\* it, also when the item's handler fails.
C30_PhaseOnlyWhenIdle ==
    [][(call'.trace.advanced \/ phase' # phase)
            => (stack = <<>> /\ opcodes = <<>>)]_vars

C30_Witness ==
    /\ call.trace.advanced
    /\ call.trace.stack_before = 0
    /\ call.trace.executed = 1
    /\ phase = "End"
    /\ report.logs = <<"LifeChanged">>

(* Claims about process_turn: the opcode queue *)

\* C31: queued opcode batches are executed first in, first out, at most one
\* per call.  The batches of an accepted debug action and of a phase advance
\* go to the back of the queue; a call that runs the queue takes the front
\* batch only and reports the logs of that batch; a call that resolves a
\* stack item takes no batch off the queue.
C31_QueueIsFifo ==
    [][\E d \in Prepended, bs \in Queued :
           LET q == opcodes \o d \o bs
               n == call'.trace.executed
           IN  /\ n \in {0, 1}
               /\ n = 0 => call'.trace.path \in {"stack", "rejected", "ended", "panic"}
                               \/ q = <<>>
               /\ call'.trace.path = "stack" => n = 0 /\ bs = <<>>
               /\ opcodes' = SubSeq(q, n + 1, Len(q))
               /\ n = 1 => /\ q # <<>>
                           /\ report'.logs = execute_all(env, q[1], <<>>).logs]_vars

C31_Witness ==
    /\ call.trace.executed = 1
    /\ ~call.trace.advanced
    /\ call.trace.path = "phase"
    /\ opcodes # <<>>
    /\ report.logs = <<"LifeChanged", "EffectTriggered">>

(* Claims about process: submissions the engine accepts *)

\* process() does not reject the submission (p, a) in the current state.
Accepted(p, a) == dispatch(last_available_actions, p, a).arm = "turn"

\* C32: the match cannot deadlock at the protocol level.  While the condition
\* is Progress some submission (player, action) is not rejected, and the
\* prompt on record, if there is one, offers at least one action: the engine
\* never keeps as the outstanding prompt a set with no actions.
C32_NoProtocolDeadlock ==
    game_condition = Progress =>
        /\ \E p \in PlayerIds, a \in OptActions : Accepted(p, a)
        /\ last_available_actions # None
               => last_available_actions[1].actions # {}

(* Claims about process_turn: recomputation of continuous effects *)

\* C33: a call that executes opcodes (a queued batch or the opcodes of a
\* resolved stack item) recomputes continuous effects after its last opcode
\* and before the condition is evaluated and the Report returned: after the
\* call the computed attributes and the reported condition are those of the
\* state the call left.
C33_RecomputedAfterLastOpcode ==
    [][call'.trace.path \in {"stack", "phase", "stack_err"} =>
          /\ computed' =
                 [id \in zones' |->
                      base_power(id)
                          + Cardinality({s \in continuous' \cap zones' :
                                             /\ controller(s) = controller(id)
                                             /\ current' = controller(s)})]
          /\ report'.condition = check_game_condition(Players, life', deck')
          /\ game_condition' = report'.condition]_vars

C33_Witness ==
    /\ call.trace.executed = 1
    /\ report.logs = <<"TurnChanged">>
    /\ 1 \in continuous
    /\ current = "B"
    /\ computed[1] = base_power(1)
    /\ game_condition = Progress

(* Claims about ObjectIdCounter::allocate *)

\* The base id is pinned: present and within 1..=MAX_RESERVED_ID.
Pinned(base_id) ==
    base_id # None /\ base_id[1] \in 1..MAX_RESERVED_ID

\* The step handed out an id for base_id as the claim says: the base itself
\* with the counter untouched when it is pinned, otherwise an id above the
\* reserved range and above every id the counter handed out before.
Allocated(base_id) ==
    LET id == id_cards'[Len(id_cards')]
    IN  /\ Len(id_cards') = Len(id_cards) + 1
        /\ IF Pinned(base_id)
           THEN /\ id = base_id[1]
                /\ id_counter' = id_counter
           ELSE /\ id > MAX_RESERVED_ID
                /\ id > id_counter
                /\ id_counter' = id
                /\ \A i \in 1..Len(id_cards) :
                       id_cards[i] > MAX_RESERVED_ID => id_cards[i] < id

\* C36: ids allocated without a pinned base (base absent, 0 or above 100)
\* are strictly increasing over successive calls and always above 100, so
\* they never equal a reserved id; allocate with a base in 1..=100 returns
\* the base and leaves the counter as it was.
C36_UnpinnedIdsIncrease ==
    [][/\ id_counter' >= id_counter
       /\ \A b \in BaseIds : Allocated(b) \/ ~CardNew(b)
       /\ id_copy # None => (Allocated(id_copy) \/ ~RenewId)]_vars

C36_Witness ==
    /\ id_cards = <<MAX_RESERVED_ID + 1, MAX_RESERVED_ID, MAX_RESERVED_ID + 2>>
    /\ id_counter = MAX_RESERVED_ID + 2

----------------------------------------------------------------------------
(* Cards: snapshots, redaction and duplication *)

\* The archetypes of the catalog used: their ids and the power they give.
\* Every archetype's factory makes an effect in its initial state.
Archetypes == {"ant", "bee"}

archetype_power(a) == IF a = "ant" THEN 1 ELSE 2

\* The states an effect object may be in; a new one is in state 0.
EffectStates == {0, 1, 2}

new_effect(a) == 0

\* Card::new: the card of a deck item, with the id allocate gave it.
card_new(id, a, owner) ==
    [id |-> id, owner |-> owner, archetype |-> a,
     computed |-> archetype_power(a), effect |-> new_effect(a), timestamp |-> 0]

\* Card::snapshot.
snapshot(card) ==
    [id |-> card.id, archetype_id |-> card.archetype, owner |-> card.owner,
     computed |-> Some(card.computed), timestamp |-> card.timestamp]

\* Faulty variant of redacted: the timestamp is kept.
redacted_keeps_time(snap) ==
    [snap EXCEPT !.archetype_id = "", !.computed = None]

\* CardSnapshot::redacted.
redacted(snap) ==
    [snap EXCEPT !.archetype_id = "", !.computed = None, !.timestamp = 0]

\* Card::duplicate: every field is copied but the effect, which the
\* archetype's factory makes anew.
duplicate(card) == [card EXCEPT !.effect = new_effect(card.archetype)]

CdCall(op, src) == [op |-> op, src |-> src]

InitCard ==
    /\ EnvInit
    /\ debug_command = FALSE
    /\ CondIdle
    /\ ExpIdle
    /\ IdIdle
    /\ RegIdle
    /\ ShardIdle
    /\ EffectsIdle
    /\ \E a \in Archetypes, owner \in PlayerIds :
           cd_cards = <<card_new(1, a, owner)>>
    /\ cd_snaps = <<>>
    /\ cd_call = CdCall("new", 1)

OthersKept == UNCHANGED <<engine_vars, cg_vars, ex_vars, id_vars, rg_vars,
                          sh_vars, ce_vars>>

\* A second card comes into the game.
CardDraw(a, owner) ==
    /\ cd_snaps = <<>>
    /\ Len(cd_cards) = 1
    /\ cd_cards' = Append(cd_cards, card_new(2, a, owner))
    /\ cd_call' = CdCall("new", 2)
    /\ UNCHANGED cd_snaps
    /\ OthersKept

\* The engine works on card i: its effect (taken with Card::effect, run, put
\* back with Card::set_effect) changes state, its computed power and its
\* timestamp are rewritten.
CardTouch(i, e, c, t) ==
    /\ cd_snaps = <<>>
    /\ cd_cards' = [cd_cards EXCEPT ![i].effect = e, ![i].computed = c,
                                    ![i].timestamp = t]
    /\ cd_cards' # cd_cards
    /\ cd_call' = CdCall("touch", i)
    /\ UNCHANGED cd_snaps
    /\ OthersKept

\* card.duplicate() of card i; the copy joins the cards.
CardDuplicate(i) ==
    /\ cd_snaps = <<>>
    /\ Len(cd_cards) = 1
    /\ cd_cards' = Append(cd_cards, duplicate(cd_cards[i]))
    /\ cd_call' = CdCall("duplicate", i)
    /\ UNCHANGED cd_snaps
    /\ OthersKept

\* card.snapshot() of every card.
CardSnapshot ==
    /\ cd_snaps = <<>>
    /\ cd_snaps' = [i \in 1..Len(cd_cards) |-> snapshot(cd_cards[i])]
    /\ cd_call' = CdCall("snapshot", 0)
    /\ UNCHANGED cd_cards
    /\ OthersKept

\* snapshot.redacted() of every snapshot, once and once more.
CardRedact ==
    /\ cd_snaps # <<>>
    /\ cd_call.op = "snapshot" \/ (cd_call.op = "redacted" /\ cd_call.src < 2)
    /\ cd_snaps' = [i \in 1..Len(cd_snaps) |-> redacted(cd_snaps[i])]
    /\ cd_call' = CdCall("redacted",
                         IF cd_call.op = "redacted" THEN cd_call.src + 1 ELSE 1)
    /\ UNCHANGED cd_cards
    /\ OthersKept

NextCard ==
    \/ \E a \in Archetypes, owner \in PlayerIds : CardDraw(a, owner)
    \/ \E i \in 1..Len(cd_cards), e \in EffectStates, c \in 1..3, t \in 0..1 :
           CardTouch(i, e, c, t)
    \/ \E i \in 1..Len(cd_cards) : CardDuplicate(i)
    \/ CardSnapshot
    \/ CardRedact

SpecCard == InitCard /\ [][NextCard]_vars

\* C37: the redacted snapshot of a card keeps the card's id and owner and
\* nothing else: the archetype id is the empty sentinel, the computed
\* attributes are absent and the timestamp is 0.  Two cards with one id and
\* one owner have equal redacted snapshots whatever their archetype, computed
\* attributes and timestamp, and redacting a redacted snapshot changes
\* nothing.
C37_RedactedHidesAllButIdentity ==
    cd_call.op = "redacted" =>
        /\ \A i \in 1..Len(cd_snaps) :
               cd_snaps[i] = [id |-> cd_cards[i].id, owner |-> cd_cards[i].owner,
                              archetype_id |-> "", computed |-> None,
                              timestamp |-> 0]
        /\ \A i, j \in 1..Len(cd_snaps) :
               (cd_cards[i].id = cd_cards[j].id
                    /\ cd_cards[i].owner = cd_cards[j].owner)
                   => cd_snaps[i] = cd_snaps[j]

\* A card and its copy, which has the same id and owner but by now another
\* computed power and timestamp, were snapshot and redacted twice.
C37_Witness ==
    /\ cd_call = CdCall("redacted", 2)
    /\ Len(cd_cards) = 2
    /\ cd_cards[1].id = cd_cards[2].id
    /\ cd_cards[1].computed # cd_cards[2].computed
    /\ cd_cards[1].timestamp # cd_cards[2].timestamp
    /\ cd_snaps[1] = cd_snaps[2]

\* C38: the copy's effect is a clone of the source card's effect: right
\* after card.duplicate() the copy's effect is in the state the source's
\* effect is in.
C38_CopyHasSourceEffectState ==
    cd_call.op = "duplicate" =>
        cd_cards[Len(cd_cards)].effect = cd_cards[cd_call.src].effect

----------------------------------------------------------------------------
(* Arguments of user-defined functions; optional iteration *)

\* C39: in a call of a user-defined function every parameter is bound to the
\* argument at its own position.  With `def fst($a; $b): $a` and
\* `def snd($a; $b): $b`, a first argument that yields no value leaves the
\* second parameter bound to the second argument (`snd(empty; 7)` gives 7)
\* and does not move the second argument onto the first parameter
\* (`fst(empty; 7)` does not give 7); a first argument that yields 1 and 2
\* binds $a to 2 and leaves $b bound to 7.
C39_ParametersBoundByPosition ==
    /\ Ran(36, 1, 12) => Yields(<<U64(7)>>)
    /\ Ran(37, 1, 12) => ~Yields(<<U64(7)>>)
    /\ Ran(38, 1, 12) => Yields(<<U64(7)>>)
    /\ Ran(39, 1, 12) => Yields(<<U64(2)>>)

\* C40: `?` on an iteration: `.[]?` on a value that is neither an array nor
\* an object raises no error and contributes no value, on the number 5 and on
\* the inputs "input", 123, while an array still contributes its elements;
\* `.[2:4]?` on "input", 123 contributes the slice of the string only.
C40_OptionalCoversEveryPart ==
    /\ Ran(40, 1, 12) => Yields(<<>>)
    /\ Ran(40, 3, 12) => Yields(<<>>)
    /\ Ran(40, 6, 12) => Yields(<<U64(1)>>)
    /\ Ran(13, 3, 12) => Yields(<<String(<<"p", "u">>)>>)

====
